---- MODULE Spec2Model ----
(***************************************************************************)
(* NBA value-betting analyzer: the analytical core.                        *)
(*   PlayerFilter.filter_players          (stability_analyzer.py)          *)
(*   ProbabilityModel.calculate_probability (probability_model.py)         *)
(*   ValueDetector.detect_value_bets      (probability_model.py)           *)
(*   StabilityAnalyzer.analyze, get_trend (stability_analyzer.py)           *)
(*   analyze_player_pool and the pipeline of main.py                       *)
(*   SessionCache                         (cache_system.py)                *)
(*                                                                         *)
(* Real numbers are fixed-point integers with denominator SCALE.  Python   *)
(* values that may be None are wrapped: None is <<>>, a present value v is *)
(* <<v>>.  String literals of the source that are not ASCII are written in *)
(* English (a TLA+ string holds ASCII only); the comment beside each one   *)
(* gives the source literal.                                               *)
(***************************************************************************)
EXTENDS Integers, Sequences, FiniteSets, TLC

VARIABLES
    \* PlayerFilter.filter_players: arguments, locals, position
    lines,            \* List[PlayerLine]
    stats,            \* Dict[str, PlayerStats]
    injury_report,    \* Optional[Dict[str, str]]
    accepted,         \* local list `accepted`
    rejected,         \* local list `rejected`
    fi,               \* 1-based index of the line the for-loop is at
    fpc,              \* "idle" | "loop" | "done" | "raised"
    \* ProbabilityModel.calculate_probability: arguments, result, position
    prob_args,        \* [stats, line, stability, context, team_defense]
    prob_result,      \* the ProbabilityResult returned
    ppc,              \* "idle" | "done"
    \* config.value.top_n_results
    top_n_results,
    \* ValueDetector.detect_value_bets: arguments, locals, result, position
    analyzed_players, \* List[Dict]: items with "line", "stats", "stability"
    team_defenses,    \* Optional[Dict[str, TeamDefense]]
    value_bets,       \* local list `value_bets`
    prob_results,     \* the prob_result of each pass of the loop so far
    contexts,         \* the ContextFactors of each pass, as the call left it
    di,               \* 1-based index of the item the for-loop is at
    dpc,              \* "idle" | "loop" | "done"
    returned,         \* the list the last finished call returned
    prev_returned,    \* the list the call before it returned, if any
    runs,             \* calls started
    \* StabilityAnalyzer: the call made, its arguments and what it returned
    apc,              \* "idle" | "analyze" | "raised" | "get_trend" | "score" |
                      \* "risk" | "priced"
    sa_args,          \* the arguments of the call
    sa_result,        \* what the call returned
    sa_prob,          \* the ProbabilityResult computed from analyze's metrics
    \* The ranking step of detect_value_bets on two candidate lists
    rpc,              \* "idle" | "first" | "second"
    rk_bets,          \* value_bets before the sort, first run
    rk_ranked,        \* value_bets after the sort and the ranks, first run
    rk_returned,      \* the slice returned, first run
    rk_who,           \* the candidate whose edge the second run raises
    rk_bets2,         \* the same three, second run
    rk_ranked2,
    rk_returned2,
    \* The pipeline of main.py: fetch the stats, analyze_player_pool, detect
    pool_pc,          \* "idle" | "filter" | "analyzed" | "raised" | "detect"
    game_logs,        \* the game log the fetcher gets for each player
    pool_result,      \* the dict analyze_player_pool returned
    \* SessionCache
    cache,            \* self._cache
    timestamps,       \* self._timestamps
    now,              \* datetime.now(), in seconds
    ttls,             \* the ttl_seconds each key was last set with
    got               \* the last get: [key, value, at]

filterVars == <<lines, stats, injury_report, accepted, rejected, fi, fpc>>
probVars == <<prob_args, prob_result, ppc>>
detectVars == <<top_n_results, analyzed_players, team_defenses, value_bets, prob_results,
                contexts, di, dpc, returned, prev_returned, runs>>
analyzeVars == <<apc, sa_args, sa_result, sa_prob>>
rankVars == <<rpc, rk_bets, rk_ranked, rk_returned, rk_who, rk_bets2, rk_ranked2,
              rk_returned2>>
poolVars == <<pool_pc, game_logs, pool_result>>
cacheVars == <<cache, timestamps, now, ttls, got>>
vars == <<filterVars, probVars, detectVars, analyzeVars, rankVars, poolVars, cacheVars>>

-----------------------------------------------------------------------------
(* Numbers and optional values *)

\* One unit is 1/30000: 0.0001 and 1/300 (games_played / 30 * 0.1) are exact.
SCALE == 3 * 10000

\* The real number n/d.
Dec(n, d) == (n * SCALE) \div d

None == <<>>
Some(v) == <<v>>
IsNone(x) == x = <<>>
Val(x) == x[1]

\* f"{x:.1f}" for a non-negative fixed-point x
Fmt1(x) == ToString(x \div SCALE) \o "." \o ToString(((x * 10) \div SCALE) % 10)

Range(s) == {s[i] : i \in DOMAIN s}

Min(a, b) == IF a <= b THEN a ELSE b
Max(a, b) == IF a >= b THEN a ELSE b
Abs(a) == IF a < 0 THEN -a ELSE a

\* a / b rounded to the nearest integer, b > 0
RoundDiv(a, b) == (2 * a + b) \div (2 * b)

\* The product of two fixed-point numbers.
Mul(a, b) == (a * b) \div SCALE

\* np.clip(x, lo, hi)
Clip(x, lo, hi) == Max(lo, Min(x, hi))

RECURSIVE SumSeq(_)
SumSeq(s) == IF s = <<>> THEN 0 ELSE Head(s) + SumSeq(Tail(s))

RECURSIVE IsqrtFrom(_, _, _)
IsqrtFrom(v, lo, hi) ==
    IF lo >= hi THEN lo
    ELSE LET mid == (lo + hi + 1) \div 2 IN
         IF mid * mid <= v THEN IsqrtFrom(v, mid, hi) ELSE IsqrtFrom(v, lo, mid - 1)

\* The integer square root of v, 0 <= v < 2^30
Isqrt(v) == IsqrtFrom(v, 0, 32767)

\* np.mean of a list of integers
NpMean(xs) == (SumSeq(xs) * SCALE) \div Len(xs)

\* np.std of a list of integers (population standard deviation):
\* sqrt(n * sum(x^2) - sum(x)^2) / n, the root taken to 1/100
NpStd(xs) ==
    LET n == Len(xs)
        sq == SumSeq([i \in DOMAIN xs |-> xs[i] * xs[i]])
        sm == SumSeq(xs)
    IN (Isqrt((n * sq - sm * sm) * 100 * 100) * (SCALE \div 100)) \div n

\* scipy.stats.norm.cdf at z = k / 10 for k = -40 .. 40
NormCdfTable ==
    <<1, 1, 2, 3, 5, 7, 10, 15, 21,
      29, 40, 56, 77, 104, 140, 186, 246, 322,
      417, 536, 683, 861, 1078, 1337, 1644, 2004, 2423,
      2904, 3452, 4070, 4760, 5522, 6356, 7259, 8228, 9256,
      10337, 11463, 12622, 13805, 15000, 16195, 17378, 18537, 19663,
      20744, 21772, 22741, 23644, 24478, 25240, 25930, 26548, 27096,
      27577, 27996, 28356, 28663, 28922, 29139, 29317, 29464, 29583,
      29678, 29754, 29814, 29860, 29896, 29923, 29944, 29960, 29971,
      29979, 29985, 29990, 29993, 29995, 29997, 29998, 29999, 29999>>

\* scipy.stats.norm.cdf((x - mean) / std), the z-score rounded to 1/10
NormCdf(x, mean, std) ==
    LET z10 == RoundDiv((x - mean) * 10, std) IN
    IF z10 < -40 THEN 0
    ELSE IF z10 > 40 THEN SCALE
    ELSE NormCdfTable[z10 + 41]

-----------------------------------------------------------------------------
(* config.filter *)

min_minutes == Dec(24, 1)
min_games_played == 5
excluded_statuses == {"Out", "Doubtful", "Questionable"}

-----------------------------------------------------------------------------
(* PlayerFilter.filter_players *)

\* The reason strings, named by the gate they belong to.
no_stats == "no statistics"                  \* "Нет статистики"
low_minutes == "low minutes"                 \* "Мало минут"
insufficient_sample == "few games"           \* "Мало игр"
injury_status == "injury/status"             \* "Травма/статус"
unavailable == "unavailable"                 \* "Недоступен"

\* What one pass of the loop body does with a line.
Reject(player_name, reason, details) ==
    [kind |-> "reject",
     record |-> [player |-> player_name, reason |-> reason, details |-> details]]
Accept == [kind |-> "accept", record |-> [player |-> None, reason |-> "", details |-> ""]]
Raise == [kind |-> "raise", record |-> [player |-> None, reason |-> "", details |-> ""]]

\* player_stats.injury_status or "Неизвестная причина"
UnavailableDetails_raw(player_stats) ==
    IF IsNone(player_stats.injury_status) THEN "" ELSE Val(player_stats.injury_status)

UnavailableDetails(player_stats) ==
    IF IsNone(player_stats.injury_status) \/ Val(player_stats.injury_status) = ""
    THEN "unknown reason"
    ELSE Val(player_stats.injury_status)

\* if not player_stats.is_available: ... (None is falsy)
CheckAvailable(player_name, player_stats) ==
    IF IsNone(player_stats.is_available) \/ ~Val(player_stats.is_available)
    THEN Reject(player_name, unavailable, UnavailableDetails(player_stats))
    ELSE Accept

\* Any entry of the report rejects, whatever its status.
CheckInjury_anyEntry(player_name, player_stats, inj) ==
    IF /\ ~IsNone(inj)
       /\ DOMAIN Val(inj) # {}
       /\ Val(player_name) \in DOMAIN Val(inj)
    THEN Reject(player_name, injury_status, "status: " \o Val(inj)[Val(player_name)])
    ELSE CheckAvailable(player_name, player_stats)

\* if injury_report and player_name in injury_report: status in excluded_statuses
CheckInjury(player_name, player_stats, inj) ==
    IF /\ ~IsNone(inj)
       /\ DOMAIN Val(inj) # {}
       /\ Val(player_name) \in DOMAIN Val(inj)
       /\ Val(inj)[Val(player_name)] \in excluded_statuses
    THEN Reject(player_name, injury_status, "status: " \o Val(inj)[Val(player_name)])
    ELSE CheckAvailable(player_name, player_stats)

\* if player_stats.games_played < min_games_played (None < int raises TypeError)
CheckGames(player_name, player_stats, inj) ==
    IF IsNone(player_stats.games_played) THEN Raise
    ELSE IF Val(player_stats.games_played) < min_games_played
    THEN Reject(player_name, insufficient_sample,
                "games: " \o ToString(Val(player_stats.games_played))
                          \o " < " \o ToString(min_games_played))
    ELSE CheckInjury(player_name, player_stats, inj)

\* The games gate moved in front of the minutes gate.
CheckMinutes_afterGames(player_name, player_stats, inj) ==
    IF IsNone(player_stats.games_played) THEN Raise
    ELSE IF Val(player_stats.games_played) < min_games_played
    THEN Reject(player_name, insufficient_sample, "games")
    ELSE IF IsNone(player_stats.avg_min_last_10) THEN Raise
    ELSE IF Val(player_stats.avg_min_last_10) < min_minutes
    THEN Reject(player_name, low_minutes, "Avg MIN")
    ELSE CheckInjury(player_name, player_stats, inj)

\* if player_stats.avg_min_last_10 < min_minutes (None < float raises TypeError)
CheckMinutes(player_name, player_stats, inj) ==
    IF IsNone(player_stats.avg_min_last_10) THEN Raise
    ELSE IF Val(player_stats.avg_min_last_10) < min_minutes
    THEN Reject(player_name, low_minutes,
                "Avg MIN: " \o Fmt1(Val(player_stats.avg_min_last_10))
                            \o " < " \o Fmt1(min_minutes))
    ELSE CheckGames(player_name, player_stats, inj)

\* if player_name not in stats (None is hashable and is no key of stats)
NotInStats(player_name, st) ==
    IsNone(player_name) \/ Val(player_name) \notin DOMAIN st

\* The body of `for line in lines`.
FilterOne(line, st, inj) ==
    IF NotInStats(line.player_name, st)
    THEN Reject(line.player_name, no_stats, "player not found in the database")
         \* "Игрок не найден в базе данных"
    ELSE CheckMinutes(line.player_name, st[Val(line.player_name)], inj)

\* accepted.append(line)
AppendAccepted_front(acc, line) == <<line>> \o acc

AppendAccepted(acc, line) == Append(acc, line)

-----------------------------------------------------------------------------
(* config.context, config.value *)

home_advantage == Dec(3, 100)
weak_defense_bonus == Dec(5, 100)
high_pace_bonus == Dec(2, 100)
back_to_back_penalty == -Dec(4, 100)
blowout_risk_penalty == -Dec(3, 100)
road_penalty == -Dec(2, 100)
weak_defense_threshold == Dec(115, 1)
strong_defense_threshold == Dec(108, 1)

min_edge_percent == Dec(5, 1)
min_confidence == Dec(55, 100)
max_confidence == Dec(85, 100)

-----------------------------------------------------------------------------
(* ProbabilityModel *)

\* class BetType
OVER == "OVER"
UNDER == "UNDER"
NO_VALUE == "NO_VALUE"

\* @dataclass ContextFactors
ContextFactors(is_home, is_back_to_back, opponent_def_rating, opponent_pace, blowout_risk) ==
    [is_home |-> is_home,
     is_back_to_back |-> is_back_to_back,
     opponent_def_rating |-> opponent_def_rating,
     opponent_pace |-> opponent_pace,
     blowout_risk |-> blowout_risk,
     total_adjustment |-> 0]

\* ContextFactors(is_home=line.is_home): the other fields at their defaults
DefaultContext(is_home) == ContextFactors(is_home, FALSE, Dec(112, 1), Dec(100, 1), 0)

\* [g["pts"] for g in games]
Pts(games) == [i \in DOMAIN games |-> games[i].pts]

\* _calculate_base_probability
calculate_base_probability(st, line) ==
    LET pts_data == Pts(st.last_10_games)
        mean_pts == NpMean(pts_data)
        std_raw == NpStd(pts_data)
        std_pts == IF std_raw < SCALE THEN SCALE ELSE std_raw
        p_over == SCALE - NormCdf(line, mean_pts, std_pts)
        pts_5 == Pts(st.last_5_games)
        mean_5 == NpMean(pts_5)
        std_5 == IF NpStd(pts_5) > SCALE THEN NpStd(pts_5) ELSE std_pts
        p_over_5 == SCALE - NormCdf(line, mean_5, std_5)
    IN (6 * p_over_5 + 4 * p_over) \div 10

\* _calculate_context_adjustment: the value returned (and written to
\* context.total_adjustment)
calculate_context_adjustment(context, team_defense) ==
    LET home == IF context.is_home THEN home_advantage ELSE road_penalty
        b2b == IF context.is_back_to_back THEN back_to_back_penalty ELSE 0
        defense ==
            IF IsNone(team_defense) THEN 0
            ELSE (IF Val(team_defense).def_rating > weak_defense_threshold
                  THEN weak_defense_bonus
                  ELSE IF Val(team_defense).def_rating < strong_defense_threshold
                  THEN -Dec(3, 100)
                  ELSE 0)
                 + Mul((Val(team_defense).pace - Dec(100, 1)) \div 100, high_pace_bonus)
        blowout == IF context.blowout_risk > Dec(5, 10)
                   THEN Mul(blowout_risk_penalty, context.blowout_risk)
                   ELSE 0
    IN home + b2b + defense + blowout

\* The CV test made first.
calculate_stability_adjustment_cvFirst(stability) ==
    IF stability.cv_pts > Dec(25, 100) THEN -Dec(2, 100)
    ELSE IF stability.hit_rate_last_10 > Dec(7, 10) THEN Dec(3, 100)
    ELSE IF stability.hit_rate_last_10 < Dec(3, 10) THEN -Dec(3, 100)
    ELSE 0

\* _calculate_stability_adjustment
calculate_stability_adjustment(stability) ==
    IF stability.hit_rate_last_10 > Dec(7, 10) THEN Dec(3, 100)
    ELSE IF stability.hit_rate_last_10 < Dec(3, 10) THEN -Dec(3, 100)
    ELSE IF stability.cv_pts > Dec(25, 100) THEN -Dec(2, 100)
    ELSE 0

\* A tie between the two edges goes to OVER.
determine_best_bet_tieOver(edge_over, edge_under) ==
    LET min_edge == min_edge_percent \div 100 IN
    IF edge_over >= min_edge /\ edge_over >= edge_under
    THEN [bet |-> OVER, edge_percent |-> edge_over * 100]
    ELSE IF edge_under >= min_edge /\ edge_under > edge_over
    THEN [bet |-> UNDER, edge_percent |-> edge_under * 100]
    ELSE [bet |-> NO_VALUE, edge_percent |-> Max(edge_over, edge_under) * 100]

\* _determine_best_bet
determine_best_bet(edge_over, edge_under) ==
    LET min_edge == min_edge_percent \div 100 IN
    IF edge_over >= min_edge /\ edge_over > edge_under
    THEN [bet |-> OVER, edge_percent |-> edge_over * 100]
    ELSE IF edge_under >= min_edge /\ edge_under > edge_over
    THEN [bet |-> UNDER, edge_percent |-> edge_under * 100]
    ELSE [bet |-> NO_VALUE, edge_percent |-> Max(edge_over, edge_under) * 100]

\* The sum left unclipped.
calculate_confidence_unclipped(stability, edge_percent, st) ==
    Dec(5, 10)
        + (stability.stability_score - Dec(50, 1)) \div 200
        + Mul(Min(Dec(st.games_played, 30), SCALE), Dec(1, 10))
        + (IF edge_percent > Dec(15, 1) THEN -Dec(1, 10) ELSE 0)
        + (IF stability.cv_pts < Dec(15, 100) THEN Dec(1, 10)
           ELSE IF stability.cv_pts > Dec(25, 100) THEN -Dec(1, 10)
           ELSE 0)

\* _calculate_confidence
calculate_confidence(stability, edge_percent, st) ==
    LET base == Dec(5, 10)
        stab == (stability.stability_score - Dec(50, 1)) \div 200
        games_factor == Mul(Min(Dec(st.games_played, 30), SCALE), Dec(1, 10))
        edge == IF edge_percent > Dec(15, 1) THEN -Dec(1, 10) ELSE 0
        cv == IF stability.cv_pts < Dec(15, 100) THEN Dec(1, 10)
              ELSE IF stability.cv_pts > Dec(25, 100) THEN -Dec(1, 10)
              ELSE 0
    IN Clip(base + stab + games_factor + edge + cv, Dec(3, 10), Dec(9, 10))

\* The sum left as it is.
FinalProbability_unclipped(base_p_over, context_adjustment, stability_adjustment) ==
    base_p_over + context_adjustment + stability_adjustment

\* p_over = np.clip(base_p_over + context_adjustment + stability_adjustment, 0.05, 0.95)
FinalProbability(base_p_over, context_adjustment, stability_adjustment) ==
    Clip(base_p_over + context_adjustment + stability_adjustment,
         Dec(5, 100), Dec(95, 100))

\* The context calculate_probability works with: the one passed, or a fresh
\* one made from the line's home flag.
ContextUsed(line, context) ==
    IF IsNone(context) THEN DefaultContext(line.is_home) ELSE Val(context)

\* calculate_probability: the ProbabilityResult returned
calculate_probability(st, line, stability, context, team_defense) ==
    LET line_value == line.line_points
        base_p_over == calculate_base_probability(st, line_value)
        context_adjustment ==
            calculate_context_adjustment(ContextUsed(line, context), team_defense)
        stability_adjustment == calculate_stability_adjustment(stability)
        p_over == FinalProbability(base_p_over, context_adjustment, stability_adjustment)
        p_under == SCALE - p_over
        implied_over == line.over_implied_prob
        implied_under == line.under_implied_prob
        edge_over == p_over - implied_over
        edge_under == p_under - implied_under
        best == determine_best_bet(edge_over, edge_under)
        confidence == calculate_confidence(stability, Abs(best.edge_percent), st)
    IN [player_name |-> st.player_name,
        line |-> line_value,
        p_over |-> p_over,
        p_under |-> p_under,
        implied_over |-> implied_over,
        implied_under |-> implied_under,
        edge_over |-> edge_over,
        edge_under |-> edge_under,
        recommended_bet |-> best.bet,
        edge_percent |-> best.edge_percent,
        confidence |-> confidence]

\* calculate_probability: the context passed, after the call (line 236 writes
\* total_adjustment into it)
ContextAfter(line, context, team_defense) ==
    IF IsNone(context) THEN None
    ELSE Some([Val(context) EXCEPT !.total_adjustment =
                   calculate_context_adjustment(Val(context), team_defense)])

-----------------------------------------------------------------------------
(* ValueDetector *)

\* needle in haystack, for Python strings
Contains(haystack, needle) ==
    \/ needle = ""
    \/ \E i \in 1..(Len(haystack) - Len(needle) + 1) :
           SubSeq(haystack, i, i + Len(needle) - 1) = needle

\* The loop without its break: the last entry that matches.
RECURSIVE FirstMatch_last(_, _)
FirstMatch_last(entries, opponent) ==
    IF entries = <<>> THEN None
    ELSE LET rest == FirstMatch_last(Tail(entries), opponent)
         IN IF ~IsNone(rest) THEN rest
            ELSE IF \/ Contains(opponent, Head(entries).abbr)
                    \/ Contains(Head(entries).defense.team_name, opponent)
            THEN Some(Head(entries).defense)
            ELSE None

\* for abbr, defense in team_defenses.items(): the first entry that matches
RECURSIVE FirstMatch(_, _)
FirstMatch(entries, opponent) ==
    IF entries = <<>> THEN None
    ELSE IF \/ Contains(opponent, Head(entries).abbr)
            \/ Contains(Head(entries).defense.team_name, opponent)
    THEN Some(Head(entries).defense)
    ELSE FirstMatch(Tail(entries), opponent)

\* opponent_defense: None unless team_defenses and line.opponent are truthy
ResolveDefense(defenses, line) ==
    IF ~IsNone(defenses) /\ Val(defenses) # <<>> /\ line.opponent # ""
    THEN FirstMatch(Val(defenses), line.opponent)
    ELSE None

\* context = ContextFactors(is_home=line.is_home, is_back_to_back=False, ...)
DetectContext(line, opponent_defense) ==
    ContextFactors(line.is_home, FALSE,
                   IF IsNone(opponent_defense) THEN Dec(112, 1)
                   ELSE Val(opponent_defense).def_rating,
                   IF IsNone(opponent_defense) THEN Dec(100, 1)
                   ELSE Val(opponent_defense).pace,
                   0)

\* The confidence test left out.
Qualifies_anyConfidence(result) ==
    /\ result.recommended_bet # NO_VALUE
    /\ result.edge_percent >= min_edge_percent

\* The test of the recommendation left out.
Qualifies_anyBet(result) ==
    /\ result.edge_percent >= min_edge_percent
    /\ result.confidence >= min_confidence

\* The three nested tests a result passes to become a ValueBet.
Qualifies(result) ==
    /\ result.recommended_bet # NO_VALUE
    /\ result.edge_percent >= min_edge_percent
    /\ result.confidence >= min_confidence

\* The over side's probabilities whatever the recommendation.
ValueBet_overSide(item, result) ==
    [player_name |-> item.stats.player_name,
     opponent |-> item.line.opponent,
     line |-> item.line.line_points,
     bet_type |-> result.recommended_bet,
     model_prob |-> result.p_over,
     implied_prob |-> result.implied_over,
     edge_percent |-> result.edge_percent,
     stability_score |-> item.stability.stability_score,
     risk_level |-> item.stability.risk_level,
     confidence |-> result.confidence,
     rank |-> 0]

\* value_bet = ValueBet(...), rank at its default
ValueBet(item, result) ==
    [player_name |-> item.stats.player_name,
     opponent |-> item.line.opponent,
     line |-> item.line.line_points,
     bet_type |-> result.recommended_bet,
     model_prob |-> IF result.recommended_bet = OVER THEN result.p_over
                    ELSE result.p_under,
     implied_prob |-> IF result.recommended_bet = OVER THEN result.implied_over
                      ELSE result.implied_under,
     edge_percent |-> result.edge_percent,
     stability_score |-> item.stability.stability_score,
     risk_level |-> item.stability.risk_level,
     confidence |-> result.confidence,
     rank |-> 0]

\* Puts vb in front of the first element whose edge_percent is not larger.
RECURSIVE InsertBeforeEqual(_, _)
InsertBeforeEqual(sorted, vb) ==
    IF sorted = <<>> THEN <<vb>>
    ELSE IF Head(sorted).edge_percent > vb.edge_percent
    THEN <<Head(sorted)>> \o InsertBeforeEqual(Tail(sorted), vb)
    ELSE <<vb>> \o sorted

\* Puts vb behind every element whose edge_percent is not smaller.
RECURSIVE InsertByEdge(_, _)
InsertByEdge(sorted, vb) ==
    IF sorted = <<>> THEN <<vb>>
    ELSE IF Head(sorted).edge_percent >= vb.edge_percent
    THEN <<Head(sorted)>> \o InsertByEdge(Tail(sorted), vb)
    ELSE <<vb>> \o sorted

RECURSIVE SortFrom(_, _)
SortFrom(sorted, rest) ==
    IF rest = <<>> THEN sorted
    ELSE SortFrom(InsertByEdge(sorted, Head(rest)), Tail(rest))

RECURSIVE SortFromUnstable(_, _)
SortFromUnstable(sorted, rest) ==
    IF rest = <<>> THEN sorted
    ELSE SortFromUnstable(InsertBeforeEqual(sorted, Head(rest)), Tail(rest))

\* Descending, equal edges in reverse input order.
SortByEdge_unstable(bets) == SortFromUnstable(<<>>, bets)

\* Ascending: the smallest edge first.
SortByEdge_ascending(bets) ==
    LET d == SortFromUnstable(<<>>, bets) IN [i \in DOMAIN d |-> d[Len(d) + 1 - i]]

\* value_bets.sort(key=lambda x: x.edge_percent, reverse=True): list.sort is
\* stable, also with reverse=True
SortByEdge(bets) == SortFrom(<<>>, bets)

\* Ranks counted from 0.
AssignRanks_fromZero(bets) == [i \in DOMAIN bets |-> [bets[i] EXCEPT !.rank = i - 1]]

\* for i, vb in enumerate(value_bets): vb.rank = i + 1
AssignRanks(bets) == [i \in DOMAIN bets |-> [bets[i] EXCEPT !.rank = i]]

\* value_bets[:n]
TopN(bets, n) ==
    IF n >= 0 THEN SubSeq(bets, 1, Min(n, Len(bets)))
    ELSE SubSeq(bets, 1, Max(Len(bets) + n, 0))

\* The list of the call before kept.
NewValueBets_kept(old) == old

\* value_bets = []
NewValueBets(old) == <<>>

-----------------------------------------------------------------------------
(* Records of data_fetcher.py *)

\* @dataclass PlayerLine
PlayerLine(player_name, opponent, is_home, line_points, over_implied_prob, under_implied_prob) ==
    [player_name |-> player_name,
     opponent |-> opponent,
     is_home |-> is_home,
     line_points |-> line_points,
     over_implied_prob |-> over_implied_prob,
     under_implied_prob |-> under_implied_prob]

\* @dataclass PlayerStats, the fields the probability model reads
PlayerStats(player_name, games_played, log) ==
    [player_name |-> player_name,
     games_played |-> games_played,
     last_5_games |-> SubSeq(log, 1, Min(5, Len(log))),
     last_10_games |-> log]

\* @dataclass TeamDefense
TeamDefense(team_name, team_abbr, def_rating, pace) ==
    [team_name |-> team_name, team_abbr |-> team_abbr,
     def_rating |-> def_rating, pace |-> pace]

\* @dataclass StabilityMetrics, the fields the probability model reads
StabilityMetrics(hit_rate_last_10, cv_pts, stability_score, risk_level) ==
    [hit_rate_last_10 |-> hit_rate_last_10,
     cv_pts |-> cv_pts,
     stability_score |-> stability_score,
     risk_level |-> risk_level]

-----------------------------------------------------------------------------
(* config.stability *)

weight_std_dev == Dec(35, 100)
weight_minutes_consistency == Dec(30, 100)
weight_usage_consistency == Dec(20, 100)
weight_hit_rate == Dec(15, 100)

-----------------------------------------------------------------------------
(* StabilityAnalyzer *)

\* np.mean of an empty list is nan (with a RuntimeWarning, no exception)
NaN == <<>>
IsNaN(x) == x = <<>>

\* a / b for fixed-point a and b > 0, to 1/1000
Div(a, b) == ((a * 1000) \div b) * (SCALE \div 1000)

\* [g["min"] for g in games]
Mins(games) == [i \in DOMAIN games |-> games[i].min]

\* 0 in place of 1.0 when the mean is not positive.
CoefficientOfVariation_zero(std, mean) == IF mean > 0 THEN Div(std, mean) ELSE 0

\* std / mean if mean > 0 else 1.0
CoefficientOfVariation(std, mean) == IF mean > 0 THEN Div(std, mean) ELSE SCALE

\* A tie counted as a hit.
HitRate_atLeast(pts, line_value) ==
    Dec(Cardinality({i \in DOMAIN pts : pts[i] * SCALE >= line_value}), Len(pts))

\* sum(1 for p in pts if p > line_value) / len(pts), pts not empty
HitRate(pts, line_value) ==
    Dec(Cardinality({i \in DOMAIN pts : pts[i] * SCALE > line_value}), Len(pts))

\* component * weight, the weight in whole percent
Weighted(component, weight) == (component * ((weight * 100) \div SCALE)) \div 100

\* round(x, 1)
Round1(x) == RoundDiv(x, SCALE \div 10) * (SCALE \div 10)

\* The clamp left out.
std_component_unclamped(std_pts) == (Dec(8, 1) - std_pts) * 20

\* max(0, min(100, (8 - std_pts) / 5 * 100))
std_component(std_pts) == Max(0, Min(Dec(100, 1), (Dec(8, 1) - std_pts) * 20))

\* The clamp left out.
min_component_unclamped(cv_min) == ((Dec(20, 100) - cv_min) * 2000) \div 3

\* max(0, min(100, (0.20 - cv_min) / 0.15 * 100))
min_component(cv_min) ==
    Max(0, Min(Dec(100, 1), ((Dec(20, 100) - cv_min) * 2000) \div 3))

\* max(0, min(100, (0.30 - cv_pts) / 0.20 * 100))
cv_component(cv_pts) == Max(0, Min(Dec(100, 1), (Dec(30, 100) - cv_pts) * 500))

\* hit_rate * 100
hit_component(hit_rate) == hit_rate * 100

\* _calculate_stability_score
calculate_stability_score(std_pts, cv_pts, cv_min, hit_rate) ==
    Round1(Weighted(std_component(std_pts), weight_std_dev)
           + Weighted(min_component(cv_min), weight_minutes_consistency)
           + Weighted(cv_component(cv_pts), weight_usage_consistency)
           + Weighted(hit_component(hit_rate), weight_hit_rate))

\* The CV bounds taken inclusive.
determine_risk_level_inclusive(cv_pts, std_pts, stability_score) ==
    IF stability_score >= Dec(70, 1) /\ cv_pts <= Dec(20, 100) THEN "low"
    ELSE IF stability_score >= Dec(50, 1) /\ cv_pts <= Dec(25, 100) THEN "medium"
    ELSE "high"

\* _determine_risk_level
determine_risk_level(cv_pts, std_pts, stability_score) ==
    IF stability_score >= Dec(70, 1) /\ cv_pts < Dec(20, 100) THEN "low"
    ELSE IF stability_score >= Dec(50, 1) /\ cv_pts < Dec(25, 100) THEN "medium"
    ELSE "high"

\* analyze divides by len(pts_5) and len(pts_10): ZeroDivisionError when one
\* of them is empty (np.mean and np.std of an empty list do not raise)
AnalyzeRaises(st) == st.last_5_games = <<>> \/ st.last_10_games = <<>>

\* analyze: the StabilityMetrics returned, both windows not empty
analyze(st, line) ==
    LET pts_data == Pts(st.last_10_games)
        mean_pts == NpMean(pts_data)
        std_pts == NpStd(pts_data)
        cv_pts == CoefficientOfVariation(std_pts, mean_pts)
        min_data == Mins(st.last_10_games)
        mean_min == NpMean(min_data)
        std_min == NpStd(min_data)
        cv_min == CoefficientOfVariation(std_min, mean_min)
        line_value == line.line_points
        hit_rate_5 == HitRate(Pts(st.last_5_games), line_value)
        hit_rate_10 == HitRate(Pts(st.last_10_games), line_value)
        stability_score == calculate_stability_score(std_pts, cv_pts, cv_min, hit_rate_10)
        risk_level == determine_risk_level(cv_pts, std_pts, stability_score)
    IN [player_name |-> st.player_name,
        mean_pts |-> mean_pts,
        std_pts |-> std_pts,
        cv_pts |-> cv_pts,
        mean_minutes |-> mean_min,
        std_minutes |-> std_min,
        cv_minutes |-> cv_min,
        hit_rate_last_5 |-> hit_rate_5,
        hit_rate_last_10 |-> hit_rate_10,
        stability_score |-> stability_score,
        is_stable |-> stability_score >= Dec(60, 1),
        risk_level |-> risk_level]

\* np.mean(xs): nan for an empty list, else the number
Mean(xs) == IF xs = <<>> THEN NaN ELSE Some(NpMean(xs))

\* (avg_5 - avg_10) / avg_10 * 100 if avg_10 > 0 else 0: nan > 0 is False,
\* and a nan avg_5 makes the quotient nan
TrendPct(avg_5, avg_10) ==
    IF IsNaN(avg_10) \/ Val(avg_10) <= 0 THEN Some(0)
    ELSE IF IsNaN(avg_5) THEN NaN
    ELSE Some((((Val(avg_5) - Val(avg_10)) * 1000) \div Val(avg_10)) * (SCALE \div 10))

\* "up" / "down" / "stable": every comparison with nan is False
Direction(pct, threshold) ==
    IF IsNaN(pct) THEN "stable"
    ELSE IF Val(pct) > threshold THEN "up"
    ELSE IF Val(pct) < -threshold THEN "down"
    ELSE "stable"

\* get_trend: the dict returned
get_trend(st) ==
    LET avg_5 == Mean(Pts(st.last_5_games))
        avg_10 == Mean(Pts(st.last_10_games))
        avg_min_5 == Mean(Mins(st.last_5_games))
        avg_min_10 == Mean(Mins(st.last_10_games))
        pts_trend_pct == TrendPct(avg_5, avg_10)
        min_trend_pct == TrendPct(avg_min_5, avg_min_10)
    IN [pts_avg_5 |-> avg_5,
        pts_avg_10 |-> avg_10,
        pts_trend_pct |-> pts_trend_pct,
        pts_direction |-> Direction(pts_trend_pct, Dec(5, 1)),
        min_avg_5 |-> avg_min_5,
        min_avg_10 |-> avg_min_10,
        min_trend_pct |-> min_trend_pct,
        min_direction |-> Direction(min_trend_pct, Dec(3, 1))]

-----------------------------------------------------------------------------
(* Inputs of the filter *)

MaxLines == 3

LineInputs ==
    {PlayerLine(n, "LAL", TRUE, Dec(245, 10), Dec(524, 1000), Dec(524, 1000)) :
         n \in {Some("A"), Some("B"), Some("C"), None}}

LinesInputs == UNION {[1..n -> LineInputs] : n \in 0..MaxLines}

\* @dataclass PlayerStats, the fields the filter reads
PlayerStatsInputs ==
    [avg_min_last_10 : {None, Some(Dec(18, 1)), Some(Dec(24, 1))},
     games_played : {None, Some(4), Some(5)},
     is_available : {None, Some(TRUE), Some(FALSE)},
     injury_status : {None, Some(""), Some("Knee")}]

GoodStats == [avg_min_last_10 |-> Some(Dec(33, 1)), games_played |-> Some(40),
              is_available |-> Some(TRUE), injury_status |-> None]

\* "A" has any stats, "B" has good stats, "C" has none.
StatsInputs == {[n \in {"A", "B"} |-> IF n = "A" THEN s ELSE GoodStats] :
                    s \in PlayerStatsInputs}

InjuryInputs ==
    {None,
     Some([n \in {} |-> ""]),
     Some([n \in {"A"} |-> "Out"]),
     Some([n \in {"A"} |-> "Probable"]),
     Some([n \in {"B"} |-> "Questionable"])}

-----------------------------------------------------------------------------
(* Inputs of the probability model *)

GameLog(pts) == [i \in DOMAIN pts |-> [pts |-> pts[i], min |-> 34]]

HotLog == GameLog(<<30, 32, 28, 31, 29, 30, 33, 27, 31, 30>>)
FlatLog == GameLog(<<20, 20, 20, 20, 20, 20, 20, 20, 20, 20>>)
SwingLog == GameLog(<<10, 30, 15, 35, 8, 28, 12, 32, 20, 25>>)
ColdLog == GameLog(<<14, 17, 15, 18, 16, 19, 15, 17, 16, 18>>)

ProbStatsInputs ==
    {PlayerStats("A", g, log) : g \in {5, 30}, log \in {HotLog, FlatLog, SwingLog}}

ImpliedInputs ==
    {<<Dec(524, 1000), Dec(524, 1000)>>,
     <<Dec(46, 100), Dec(40, 100)>>,
     <<Dec(40, 100), Dec(65, 100)>>,
     <<Dec(75, 100), Dec(75, 100)>>}

ProbLineInputs ==
    {PlayerLine(Some("A"), "LAL", home, pts, imp[1], imp[2]) :
         home \in BOOLEAN, pts \in {Dec(20, 1), Dec(245, 10)}, imp \in ImpliedInputs}

StabilityInputs ==
    {StabilityMetrics(hit, cv, score, "medium") :
         hit \in {Dec(2, 10), Dec(3, 10), Dec(5, 10), Dec(7, 10), Dec(8, 10)},
         cv \in {Dec(10, 100), Dec(20, 100), Dec(30, 100)},
         score \in {Dec(40, 1), Dec(625, 10), Dec(85, 1), Dec(97, 1)}}

ContextInputs ==
    {None,
     Some(DefaultContext(TRUE)),
     Some(ContextFactors(FALSE, TRUE, Dec(120, 1), Dec(104, 1), Dec(8, 10)))}

WeakDefense == TeamDefense("Los Angeles Lakers", "LAL", Dec(118, 1), Dec(104, 1))
StrongDefense == TeamDefense("Miami Heat", "MIA", Dec(105, 1), Dec(96, 1))

TeamDefenseInputs == {None, Some(WeakDefense), Some(StrongDefense)}

-----------------------------------------------------------------------------
(* Inputs of the stability analyzer *)

GameLogWith(pts, mins) == [i \in DOMAIN pts |-> [pts |-> pts[i], min |-> mins[i]]]

HotPts == <<30, 32, 28, 31, 29, 30, 33, 27, 31, 30>>
SteadyMins == <<34, 34, 34, 34, 34, 34, 34, 34, 34, 34>>
SwingMins == <<10, 40, 10, 40, 10, 40, 10, 40, 10, 40>>
ZeroMins == <<0, 0, 0, 0, 0, 0, 0, 0, 0, 0>>
ZeroPts == <<0, 0, 0, 0, 0, 0, 0, 0, 0, 0>>
ZeroLog == GameLogWith(ZeroPts, SteadyMins)
ShortLog == GameLog(<<22, 18, 20>>)

AnalyzeLogInputs ==
    {GameLogWith(HotPts, mins) : mins \in {SteadyMins, SwingMins, ZeroMins}}
        \cup {FlatLog, SwingLog, ColdLog, ZeroLog, ShortLog, <<>>}

\* The two windows cut from one log, and one with only the last-5 list empty.
AnalyzeStatsInputs ==
    {PlayerStats("A", Len(log), log) : log \in AnalyzeLogInputs}
        \cup {[PlayerStats("A", 10, ColdLog) EXCEPT !.last_5_games = <<>>]}

AnalyzeLineInputs ==
    {PlayerLine(Some("A"), "LAL", home, pts, Dec(524, 1000), Dec(524, 1000)) :
         home \in BOOLEAN, pts \in {Dec(20, 1), Dec(245, 10), Dec(30, 1)}}

\* Arguments of _calculate_stability_score, the extremes included
ScoreInputs ==
    [std_pts : {-Dec(2, 1), 0, Dec(3, 1), Dec(55, 10), Dec(8, 1), Dec(50, 1)},
     cv_pts : {-Dec(1, 10), 0, Dec(10, 100), Dec(20, 100), Dec(30, 100), Dec(5, 1)},
     cv_min : {0, Dec(5, 100), Dec(125, 1000), Dec(20, 100), Dec(3, 1)},
     hit_rate : {0, Dec(5, 10), SCALE}]

\* Arguments of _determine_risk_level, the boundaries included
RiskInputs ==
    [cv_pts : {Dec(10, 100), Dec(20, 100), Dec(25, 100), Dec(30, 100)},
     std_pts : {Dec(4, 1)},
     stability_score : {Dec(499, 10), Dec(50, 1), Dec(60, 1), Dec(699, 10), Dec(70, 1),
                        Dec(90, 1)}]

-----------------------------------------------------------------------------
(* Inputs of the detector *)

MaxPool == 3
MaxTopN == 2
MaxRuns == 2

\* Ready-made stability metrics, as analyze_player_pool attaches them.
Steady == StabilityMetrics(Dec(8, 10), Dec(10, 100), Dec(85, 1), "low")
Plain == StabilityMetrics(Dec(5, 10), Dec(20, 100), Dec(625, 10), "medium")
Shaky == StabilityMetrics(Dec(5, 10), Dec(30, 100), Dec(40, 1), "high")

\* One analyzed item without its player name: {"line", "stats", "stability"}
\* The fourth has an opponent no entry of DefensesInputs matches and odds that
\* leave both sides the same edge; the fifth is an away line.
ItemInputs ==
    {[log |-> HotLog, line_points |-> Dec(245, 10), opponent |-> "LAL", stability |-> Steady,
      is_home |-> TRUE, over |-> Dec(524, 1000), under |-> Dec(524, 1000)],
     [log |-> SwingLog, line_points |-> Dec(20, 1), opponent |-> "MIA", stability |-> Plain,
      is_home |-> TRUE, over |-> Dec(524, 1000), under |-> Dec(524, 1000)],
     [log |-> HotLog, line_points |-> Dec(245, 10), opponent |-> "MIA", stability |-> Shaky,
      is_home |-> TRUE, over |-> Dec(524, 1000), under |-> Dec(524, 1000)],
     [log |-> FlatLog, line_points |-> Dec(20, 1), opponent |-> "DEN", stability |-> Plain,
      is_home |-> TRUE, over |-> Dec(46, 100), under |-> Dec(40, 100)],
     [log |-> ColdLog, line_points |-> Dec(20, 1), opponent |-> "BOS @ DEN", stability |-> Plain,
      is_home |-> FALSE, over |-> Dec(524, 1000), under |-> Dec(524, 1000)],
     [log |-> SwingLog, line_points |-> Dec(245, 10), opponent |-> "LAL", stability |-> Steady,
      is_home |-> TRUE, over |-> Dec(524, 1000), under |-> Dec(524, 1000)]}

PlayerNames == <<"P1", "P2", "P3", "P4", "P5">>

\* The analyzed item made of input `inp` for the i-th player.
Item(inp, i) ==
    [line |-> PlayerLine(Some(PlayerNames[i]), inp.opponent, inp.is_home, inp.line_points,
                         inp.over, inp.under),
     stats |-> PlayerStats(PlayerNames[i], 30, inp.log),
     stability |-> inp.stability]

PoolInputs ==
    UNION {{[i \in 1..n |-> Item(f[i], i)] : f \in [1..n -> ItemInputs]} : n \in 0..MaxPool}

\* Optional[Dict[str, TeamDefense]]: the entries in the dict's order
DefensesInputs ==
    {None,
     Some(<<>>),
     Some(<<[abbr |-> "LAL", defense |-> WeakDefense],
            [abbr |-> "MIA", defense |-> StrongDefense]>>),
     Some(<<[abbr |-> "MIA", defense |-> StrongDefense],
            [abbr |-> "L", defense |-> StrongDefense],
            [abbr |-> "LAL", defense |-> WeakDefense]>>)}

\* The candidates of the ranking step: value_bets as the loop leaves it, the
\* i-th candidate being player PlayerNames[i].
Candidate(i, edge_percent, confidence) ==
    [player_name |-> PlayerNames[i],
     opponent |-> "LAL",
     line |-> Dec(245, 10),
     bet_type |-> OVER,
     model_prob |-> Dec(524, 1000) + edge_percent \div 100,
     implied_prob |-> Dec(524, 1000),
     edge_percent |-> edge_percent,
     stability_score |-> Dec(625, 10),
     risk_level |-> "medium",
     confidence |-> confidence,
     rank |-> 0]

RankEdges == {Dec(5, 1), Dec(8, 1), Dec(12, 1), Dec(20, 1)}
RaisedEdges == RankEdges \cup {Dec(30, 1)}
RaisedConfidences == {Dec(55, 100), Dec(7, 10)}

RankInputs ==
    UNION {{[i \in 1..n |-> Candidate(i, f[i], Dec(7, 10))] : f \in [1..n -> RankEdges]} :
               n \in 0..MaxPool}

-----------------------------------------------------------------------------
(* Initial state *)

\* PlayerFilter(): no call made yet
InitFilter ==
    /\ lines = <<>>
    /\ stats = [n \in {} |-> GoodStats]
    /\ injury_report = None
    /\ accepted = <<>>
    /\ rejected = <<>>
    /\ fi = 1
    /\ fpc = "idle"

\* ProbabilityModel(): no call made yet
InitProb ==
    /\ prob_args = None
    /\ prob_result = None
    /\ ppc = "idle"

\* ValueDetector(), config = Config(): no call made yet
InitDetect ==
    /\ top_n_results = 5
    /\ analyzed_players = <<>>
    /\ team_defenses = None
    /\ value_bets = <<>>
    /\ prob_results = <<>>
    /\ contexts = <<>>
    /\ di = 1
    /\ dpc = "idle"
    /\ returned = <<>>
    /\ prev_returned = None
    /\ runs = 0

\* StabilityAnalyzer(): no call made yet
InitAnalyze ==
    /\ apc = "idle"
    /\ sa_args = None
    /\ sa_result = None
    /\ sa_prob = None

\* No ranking made yet
InitRank ==
    /\ rpc = "idle"
    /\ rk_bets = <<>>
    /\ rk_ranked = <<>>
    /\ rk_returned = <<>>
    /\ rk_who = 0
    /\ rk_bets2 = <<>>
    /\ rk_ranked2 = <<>>
    /\ rk_returned2 = <<>>

\* Nothing fetched, no pool analyzed yet
InitPool ==
    /\ pool_pc = "idle"
    /\ game_logs = [n \in {} |-> <<>>]
    /\ pool_result = None

\* Inputs of SessionCache: keys, values, ttl_seconds; the clock stops at MaxTime
MaxTime == 3
CacheKeys == {"demo_data", "other"}
CacheValues == {"response_1", "response_2"}
TtlInputs == {1, 2}

\* A dict over CacheKeys: None for a key that is not in it
EmptyDict == [k \in CacheKeys |-> None]

\* session_cache = SessionCache(): both dicts empty
InitCache ==
    /\ cache = EmptyDict
    /\ timestamps = EmptyDict
    /\ now = 0
    /\ ttls = EmptyDict
    /\ got = None

Init ==
    /\ InitFilter /\ InitProb /\ InitDetect /\ InitAnalyze /\ InitRank
    /\ InitPool /\ InitCache

-----------------------------------------------------------------------------
(* PlayerFilter.filter_players as a state machine *)

\* filter_players(lines, stats, injury_report): accepted = [], rejected = []
FilterCall ==
    /\ fpc = "idle"
    /\ \E ls \in LinesInputs, st \in StatsInputs, inj \in InjuryInputs :
        /\ lines' = ls
        /\ stats' = st
        /\ injury_report' = inj
    /\ accepted' = <<>>
    /\ rejected' = <<>>
    /\ fi' = 1
    /\ fpc' = "loop"
    /\ UNCHANGED <<probVars, detectVars, analyzeVars, rankVars, poolVars, cacheVars>>

\* One pass of the loop body.
FilterLine ==
    /\ fpc = "loop"
    /\ fi <= Len(lines)
    /\ LET out == FilterOne(lines[fi], stats, injury_report) IN
        /\ accepted' = IF out.kind = "accept"
                       THEN AppendAccepted(accepted, lines[fi]) ELSE accepted
        /\ rejected' = IF out.kind = "reject"
                       THEN Append(rejected, out.record) ELSE rejected
        /\ fi' = IF out.kind = "raise" THEN fi ELSE fi + 1
        /\ fpc' = IF out.kind = "raise" THEN "raised" ELSE "loop"
    /\ UNCHANGED <<lines, stats, injury_report>>
    /\ UNCHANGED <<probVars, detectVars, analyzeVars, rankVars, poolVars, cacheVars>>

\* return accepted, rejected
FilterReturn ==
    /\ fpc = "loop"
    /\ fi > Len(lines)
    /\ fpc' = "done"
    /\ UNCHANGED <<lines, stats, injury_report, accepted, rejected, fi>>
    /\ UNCHANGED <<probVars, detectVars, analyzeVars, rankVars, poolVars, cacheVars>>

NextFilter ==
    \/ FilterCall
    \/ FilterLine
    \/ FilterReturn

SpecFilter == Init /\ [][NextFilter]_vars

-----------------------------------------------------------------------------
(* ProbabilityModel.calculate_probability as a state machine *)

\* One call of calculate_probability(stats, line, stability, context, team_defense)
CalculateProbability ==
    /\ ppc = "idle"
    /\ \E st \in ProbStatsInputs, line \in ProbLineInputs,
          stability \in StabilityInputs, context \in ContextInputs,
          team_defense \in TeamDefenseInputs :
        /\ prob_result' = Some(calculate_probability(st, line, stability, context,
                                                     team_defense))
        /\ prob_args' = Some([stats |-> st, line |-> line, stability |-> stability,
                              context_before |-> context,
                              context |-> ContextAfter(line, context, team_defense),
                              team_defense |-> team_defense])
    /\ ppc' = "done"
    /\ UNCHANGED <<filterVars, detectVars, analyzeVars, rankVars, poolVars, cacheVars>>

NextProb == CalculateProbability

SpecProb == Init /\ [][NextProb]_vars

-----------------------------------------------------------------------------
(* ValueDetector.detect_value_bets as a state machine *)

\* main(): if args.top: config.value.top_n_results = args.top
SetTopN ==
    /\ dpc = "idle"
    /\ runs = 0
    /\ rpc = "idle"
    /\ \E n \in 1..MaxTopN : top_n_results' = n
    /\ top_n_results' # top_n_results
    /\ UNCHANGED <<analyzed_players, team_defenses, value_bets, prob_results, contexts,
                   di, dpc, returned, prev_returned, runs>>
    /\ UNCHANGED <<filterVars, probVars, analyzeVars, rankVars, poolVars, cacheVars>>

\* detect_value_bets(analyzed_players, team_defenses): value_bets = []
DetectCall ==
    /\ dpc = "idle"
    /\ \E pool \in PoolInputs, defenses \in DefensesInputs :
        /\ analyzed_players' = pool
        /\ team_defenses' = defenses
    /\ value_bets' = NewValueBets(value_bets)
    /\ prob_results' = <<>>
    /\ contexts' = <<>>
    /\ di' = 1
    /\ dpc' = "loop"
    /\ runs' = runs + 1
    /\ UNCHANGED <<top_n_results, returned, prev_returned>>
    /\ UNCHANGED <<filterVars, probVars, analyzeVars, rankVars, poolVars, cacheVars>>

\* detect_value_bets called again with the same arguments
DetectAgain ==
    /\ dpc = "done"
    /\ runs < MaxRuns
    /\ prev_returned' = Some(returned)
    /\ value_bets' = NewValueBets(value_bets)
    /\ prob_results' = <<>>
    /\ contexts' = <<>>
    /\ di' = 1
    /\ dpc' = "loop"
    /\ runs' = runs + 1
    /\ UNCHANGED <<top_n_results, analyzed_players, team_defenses, returned>>
    /\ UNCHANGED <<filterVars, probVars, analyzeVars, rankVars, poolVars, cacheVars>>

\* One pass of the body of `for item in analyzed_players`.
DetectItem ==
    /\ dpc = "loop"
    /\ di <= Len(analyzed_players)
    /\ LET item == analyzed_players[di]
           opponent_defense == ResolveDefense(team_defenses, item.line)
           context == DetectContext(item.line, opponent_defense)
           prob_result_ == calculate_probability(item.stats, item.line, item.stability,
                                                 Some(context), opponent_defense)
       IN /\ prob_results' = Append(prob_results, prob_result_)
          /\ contexts' = Append(contexts,
                                Val(ContextAfter(item.line, Some(context), opponent_defense)))
          /\ value_bets' = IF Qualifies(prob_result_)
                           THEN Append(value_bets, ValueBet(item, prob_result_))
                           ELSE value_bets
    /\ di' = di + 1
    /\ UNCHANGED <<top_n_results, analyzed_players, team_defenses, dpc, returned,
                   prev_returned, runs>>
    /\ UNCHANGED <<filterVars, probVars, analyzeVars, rankVars, poolVars, cacheVars>>

\* After the loop: sort, assign the ranks, return the first top_n_results.
DetectReturn ==
    /\ dpc = "loop"
    /\ di > Len(analyzed_players)
    /\ value_bets' = AssignRanks(SortByEdge(value_bets))
    /\ returned' = TopN(value_bets', top_n_results)
    /\ dpc' = "done"
    /\ UNCHANGED <<top_n_results, analyzed_players, team_defenses, prob_results,
                   contexts, di, prev_returned, runs>>
    /\ UNCHANGED <<filterVars, probVars, analyzeVars, rankVars, poolVars, cacheVars>>

NextDetect ==
    \/ SetTopN
    \/ DetectCall
    \/ DetectAgain
    \/ DetectItem
    \/ DetectReturn

SpecDetect == Init /\ [][NextDetect]_vars

-----------------------------------------------------------------------------
(* StabilityAnalyzer as a state machine: one call per behaviour *)

\* analyze(stats, line)
Analyze ==
    /\ apc = "idle"
    /\ \E st \in AnalyzeStatsInputs, line \in AnalyzeLineInputs :
        /\ sa_args' = Some([stats |-> st, line |-> line])
        /\ IF AnalyzeRaises(st)
           THEN apc' = "raised" /\ sa_result' = None
           ELSE apc' = "analyze" /\ sa_result' = Some(analyze(st, line))
    /\ UNCHANGED sa_prob
    /\ UNCHANGED <<filterVars, probVars, detectVars, rankVars, poolVars, cacheVars>>

\* get_trend(stats)
GetTrend ==
    /\ apc = "idle"
    /\ \E st \in AnalyzeStatsInputs :
        /\ sa_args' = Some([stats |-> st])
        /\ sa_result' = Some(get_trend(st))
    /\ apc' = "get_trend"
    /\ UNCHANGED sa_prob
    /\ UNCHANGED <<filterVars, probVars, detectVars, rankVars, poolVars, cacheVars>>

\* _calculate_stability_score(std_pts, cv_pts, cv_min, hit_rate)
CalculateStabilityScore ==
    /\ apc = "idle"
    /\ \E a \in ScoreInputs :
        /\ sa_args' = Some(a)
        /\ sa_result' = Some(calculate_stability_score(a.std_pts, a.cv_pts, a.cv_min,
                                                       a.hit_rate))
    /\ apc' = "score"
    /\ UNCHANGED sa_prob
    /\ UNCHANGED <<filterVars, probVars, detectVars, rankVars, poolVars, cacheVars>>

\* _determine_risk_level(cv_pts, std_pts, stability_score)
DetermineRiskLevel ==
    /\ apc = "idle"
    /\ \E a \in RiskInputs :
        /\ sa_args' = Some(a)
        /\ sa_result' = Some(determine_risk_level(a.cv_pts, a.std_pts, a.stability_score))
    /\ apc' = "risk"
    /\ UNCHANGED sa_prob
    /\ UNCHANGED <<filterVars, probVars, detectVars, rankVars, poolVars, cacheVars>>

\* calculate_probability on the metrics analyze returned, as detect_value_bets
\* calls it for an analyzed item
PriceAnalyzed ==
    /\ apc = "analyze"
    /\ \E context \in ContextInputs, team_defense \in TeamDefenseInputs :
        sa_prob' = Some(calculate_probability(Val(sa_args).stats, Val(sa_args).line,
                                              Val(sa_result), context, team_defense))
    /\ apc' = "priced"
    /\ UNCHANGED <<sa_args, sa_result>>
    /\ UNCHANGED <<filterVars, probVars, detectVars, rankVars, poolVars, cacheVars>>

NextAnalyze ==
    \/ Analyze
    \/ GetTrend
    \/ CalculateStabilityScore
    \/ DetermineRiskLevel
    \/ PriceAnalyzed

SpecAnalyze == Init /\ [][NextAnalyze]_vars

-----------------------------------------------------------------------------
(* The ranking step of detect_value_bets, run on two lists of candidates *)

\* Lines 433-441 on a list of candidates.
RankFirst ==
    /\ rpc = "idle"
    /\ \E bets \in RankInputs : rk_bets' = bets
    /\ rk_ranked' = AssignRanks(SortByEdge(rk_bets'))
    /\ rk_returned' = TopN(rk_ranked', top_n_results)
    /\ rpc' = "first"
    /\ UNCHANGED <<rk_who, rk_bets2, rk_ranked2, rk_returned2>>
    /\ UNCHANGED <<filterVars, probVars, detectVars, analyzeVars, poolVars, cacheVars>>

\* The same lines on the same candidates, one of them with a larger
\* edge_percent and a confidence still at or above min_confidence.
RankRaised ==
    /\ rpc = "first"
    /\ \E k \in DOMAIN rk_bets, e \in RaisedEdges, c \in RaisedConfidences :
        /\ e > rk_bets[k].edge_percent
        /\ rk_who' = k
        /\ rk_bets2' = [rk_bets EXCEPT ![k] = Candidate(k, e, c)]
    /\ rk_ranked2' = AssignRanks(SortByEdge(rk_bets2'))
    /\ rk_returned2' = TopN(rk_ranked2', top_n_results)
    /\ rpc' = "second"
    /\ UNCHANGED <<rk_bets, rk_ranked, rk_returned>>
    /\ UNCHANGED <<filterVars, probVars, detectVars, analyzeVars, poolVars, cacheVars>>

NextRank ==
    \/ SetTopN
    \/ RankFirst
    \/ RankRaised

SpecRank == Init /\ [][NextRank]_vars

-----------------------------------------------------------------------------
(* Properties of the filter *)

\* The lines the loop has finished with.
Processed == SubSeq(lines, 1, fi - 1)

\* The gates, stated on a line and the call's arguments.
HasStats(l) == ~IsNone(l.player_name) /\ Val(l.player_name) \in DOMAIN stats
StatsOf(l) == stats[Val(l.player_name)]
FailsMinutes(l) ==
    ~IsNone(StatsOf(l).avg_min_last_10) /\ Val(StatsOf(l).avg_min_last_10) < min_minutes
FailsGames(l) ==
    ~IsNone(StatsOf(l).games_played) /\ Val(StatsOf(l).games_played) < min_games_played
FailsInjury(l) ==
    /\ ~IsNone(injury_report)
    /\ Val(l.player_name) \in DOMAIN Val(injury_report)
    /\ Val(injury_report)[Val(l.player_name)] \in excluded_statuses
FailsAvailable(l) ==
    IsNone(StatsOf(l).is_available) \/ ~Val(StatsOf(l).is_available)
Passes(l) ==
    /\ HasStats(l)
    /\ ~FailsMinutes(l)
    /\ ~FailsGames(l)
    /\ ~FailsInjury(l)
    /\ ~FailsAvailable(l)
Fails(l) == ~Passes(l)

\* The reason of the first gate, in the order stats, minutes, games, injury,
\* availability, that the line fails.
FirstFailingReason(l) ==
    IF ~HasStats(l) THEN no_stats
    ELSE IF FailsMinutes(l) THEN low_minutes
    ELSE IF FailsGames(l) THEN insufficient_sample
    ELSE IF FailsInjury(l) THEN injury_status
    ELSE unavailable

\* C1: filter_players partitions its input: the accepted and the rejected
\* records together are as many as the lines gone through (all of them on
\* return), and every rejected record has a non-empty reason and a non-empty
\* detail string.
C1_FilterPartition ==
    /\ Len(accepted) + Len(rejected) = fi - 1
    /\ fpc = "done" => Len(accepted) + Len(rejected) = Len(lines)
    /\ \A k \in DOMAIN rejected :
           /\ rejected[k].reason # ""
           /\ rejected[k].details # ""

C1_Witness ==
    /\ fpc = "done"
    /\ Len(lines) = MaxLines
    /\ Len(accepted) >= 1
    /\ \E k \in DOMAIN rejected :
           rejected[k].reason = unavailable /\ rejected[k].details = "unknown reason"
    /\ \E k \in DOMAIN rejected : rejected[k].reason = no_stats

\* C2: the reason of a rejected record is that of the first gate its line
\* fails, the gates taken in the order stats-present, minutes, games played,
\* injury status, availability; a line whose player has stats with average
\* minutes below min_minutes is rejected as low_minutes whatever the other
\* fields are.
C2_FirstFailingGate ==
    LET rejectedLines == SelectSeq(Processed, Fails) IN
    /\ Len(rejected) = Len(rejectedLines)
    /\ \A k \in DOMAIN rejected :
           k \in DOMAIN rejectedLines =>
               /\ rejected[k].reason = FirstFailingReason(rejectedLines[k])
               /\ (HasStats(rejectedLines[k]) /\ FailsMinutes(rejectedLines[k]))
                      => rejected[k].reason = low_minutes

C2_Witness ==
    /\ fpc = "done"
    /\ "A" \in DOMAIN stats
    /\ stats["A"].avg_min_last_10 = Some(Dec(18, 1))
    /\ stats["A"].games_played = Some(4)
    /\ stats["A"].is_available = Some(FALSE)
    /\ injury_report = Some([n \in {"A"} |-> "Out"])
    /\ \E k \in DOMAIN rejected :
           rejected[k].player = Some("A") /\ rejected[k].reason = low_minutes

\* C3: filter_players keeps the input order: the accepted list is the
\* passing lines in their input order and the rejected records are those of
\* the failing lines in their input order.
C3_OrderPreserved ==
    LET rejectedLines == SelectSeq(Processed, Fails) IN
    /\ accepted = SelectSeq(Processed, Passes)
    /\ Len(rejected) = Len(rejectedLines)
    /\ \A k \in DOMAIN rejected :
           k \in DOMAIN rejectedLines =>
               rejected[k].player = rejectedLines[k].player_name

C3_Witness ==
    /\ fpc = "done"
    /\ Len(accepted) = 2
    /\ accepted[1] # accepted[2]
    /\ Len(rejected) = 1
    /\ lines[2] \notin Range(accepted)

\* C4: filter_players never raises: a line whose needed field is None is
\* rejected and the lines after it are still gone through.
C4_NeverRaises == fpc # "raised"

\* The lines gone through that got as far as the injury gate: their player
\* has stats that pass the minutes and the games gates.
ReachesInjuryGate(l) == HasStats(l) /\ ~FailsMinutes(l) /\ ~FailsGames(l)

\* The rejected records with a given reason.
RejectedFor(reason) == SelectSeq(rejected, LAMBDA r : r.reason = reason)

\* C16: the injury gate rejects a line only when an injury report is
\* supplied, it has an entry for the player and the entry's status is in
\* excluded_statuses; with no report, no entry or a status outside the set
\* (Probable) the line goes on to the availability gate, which accepts it or
\* rejects it as unavailable.
C16_InjuryGate ==
    LET atGate == SelectSeq(Processed, ReachesInjuryGate)
        excluded(l) ==
            /\ ~IsNone(injury_report)
            /\ Val(l.player_name) \in DOMAIN Val(injury_report)
            /\ Val(injury_report)[Val(l.player_name)] \in {"Out", "Doubtful", "Questionable"}
        goesOn(l) == ~excluded(l)
        stopped == SelectSeq(atGate, excluded)
        passed == SelectSeq(atGate, goesOn)
    IN /\ Len(RejectedFor(injury_status)) = Len(stopped)
       /\ \A k \in DOMAIN stopped :
              RejectedFor(injury_status)[k].player = stopped[k].player_name
       /\ accepted = SelectSeq(passed, LAMBDA l : ~FailsAvailable(l))
       /\ Len(RejectedFor(unavailable)) = Len(SelectSeq(passed, FailsAvailable))

C16_Witness ==
    /\ fpc = "done"
    /\ injury_report = Some([n \in {"A"} |-> "Probable"])
    /\ \E k \in DOMAIN accepted : accepted[k].player_name = Some("A")
    /\ \E k \in DOMAIN accepted : accepted[k].player_name = Some("B")
    /\ Len(lines) = 2

-----------------------------------------------------------------------------
(* Properties of the probability model *)

\* base_p_over + context_adjustment + stability_adjustment of the call made
RawProbability ==
    LET a == Val(prob_args) IN
    calculate_base_probability(a.stats, a.line.line_points)
        + calculate_context_adjustment(
              IF IsNone(a.context) THEN DefaultContext(a.line.is_home)
              ELSE Val(a.context),
              a.team_defense)
        + calculate_stability_adjustment(a.stability)

\* C5: in every ProbabilityResult p_over + p_under is exactly 1 and both lie
\* in [0.05, 0.95].
C5_ProbabilityRange ==
    ppc = "done" =>
        LET r == Val(prob_result) IN
        /\ r.p_over + r.p_under = SCALE
        /\ Dec(5, 100) <= r.p_over /\ r.p_over <= Dec(95, 100)
        /\ Dec(5, 100) <= r.p_under /\ r.p_under <= Dec(95, 100)

C5_Witness ==
    /\ ppc = "done"
    /\ RawProbability > SCALE
    /\ Val(prob_result).p_over = Dec(95, 100)
    /\ Val(prob_result).p_under = Dec(5, 100)

\* C6: OVER exactly when edge_over >= min_edge and edge_over > edge_under,
\* UNDER exactly when that fails and edge_under >= min_edge and
\* edge_under > edge_over, NO_VALUE otherwise; edge_percent is 100 times the
\* edge of the side recommended, or the larger edge for NO_VALUE; equal edges
\* always give NO_VALUE.
C6_Recommendation ==
    ppc = "done" =>
        LET r == Val(prob_result)
            min_edge == Dec(5, 100)
            over == r.edge_over >= min_edge /\ r.edge_over > r.edge_under
            under == ~over /\ r.edge_under >= min_edge /\ r.edge_under > r.edge_over
        IN /\ r.recommended_bet \in {OVER, UNDER, NO_VALUE}
           /\ r.recommended_bet = OVER <=> over
           /\ r.recommended_bet = UNDER <=> under
           /\ r.recommended_bet = OVER => r.edge_percent = r.edge_over * 100
           /\ r.recommended_bet = UNDER => r.edge_percent = r.edge_under * 100
           /\ r.recommended_bet = NO_VALUE =>
                  /\ r.edge_percent >= r.edge_over * 100
                  /\ r.edge_percent >= r.edge_under * 100
                  /\ r.edge_percent \in {r.edge_over * 100, r.edge_under * 100}
           /\ r.edge_over = r.edge_under => r.recommended_bet = NO_VALUE

C6_Witness ==
    /\ ppc = "done"
    /\ Val(prob_result).edge_over = Val(prob_result).edge_under
    /\ Val(prob_result).edge_over >= Dec(5, 100)
    /\ Val(prob_result).recommended_bet = NO_VALUE

\* C19: the stability adjustment is one of +0.03, -0.03, -0.02, 0: +0.03 when
\* the last-10 hit rate > 0.7, -0.03 when it is < 0.3, and for a hit rate
\* within [0.3, 0.7] it is -0.02 when cv_pts > 0.25 and 0 otherwise; the hit
\* rate tests come first, and 0.7 and 0.3 themselves fall to the CV test.
C19_StabilityAdjustment ==
    ppc = "done" =>
        LET stability == Val(prob_args).stability
            hit == stability.hit_rate_last_10
            adjustment == calculate_stability_adjustment(stability)
        IN /\ adjustment \in {Dec(3, 100), -Dec(3, 100), -Dec(2, 100), 0}
           /\ adjustment = Dec(3, 100) <=> hit > Dec(7, 10)
           /\ adjustment = -Dec(3, 100) <=> hit < Dec(3, 10)
           /\ adjustment = -Dec(2, 100) <=>
                  /\ Dec(3, 10) <= hit /\ hit <= Dec(7, 10)
                  /\ stability.cv_pts > Dec(25, 100)

C19_Witness ==
    /\ ppc = "done"
    /\ Val(prob_args).stability.hit_rate_last_10 = Dec(7, 10)
    /\ Val(prob_args).stability.cv_pts = Dec(30, 100)
    /\ calculate_stability_adjustment(Val(prob_args).stability) = -Dec(2, 100)

\* C20: the confidence of every ProbabilityResult is within [0.3, 0.9].
C20_ConfidenceRange ==
    ppc = "done" =>
        /\ Dec(3, 10) <= Val(prob_result).confidence
        /\ Val(prob_result).confidence <= Dec(9, 10)

C20_Witness ==
    /\ ppc = "done"
    /\ Val(prob_args).stability.stability_score = Dec(97, 1)
    /\ Val(prob_args).stability.cv_pts = Dec(10, 100)
    /\ Val(prob_args).stats.games_played = 30
    /\ Val(prob_result).edge_percent <= Dec(15, 1)
    /\ Val(prob_result).confidence = Dec(9, 10)

\* C21: the large-edge penalty of 0.1 is taken off the confidence exactly
\* when the reported edge_percent is greater than 15: the confidence is the
\* one computed from the reported edge_percent, so a result with a negative
\* edge_percent carries no penalty.
C21_LargeEdgePenalty ==
    ppc = "done" =>
        LET a == Val(prob_args)
            r == Val(prob_result)
        IN r.confidence = calculate_confidence(a.stability, r.edge_percent, a.stats)

\* The defense and pace terms as the opponent rating and pace of a
\* ContextFactors give them.
DefenseTerm(context) ==
    IF context.opponent_def_rating > Dec(115, 1) THEN Dec(5, 100)
    ELSE IF context.opponent_def_rating < Dec(108, 1) THEN -Dec(3, 100)
    ELSE 0
PaceTerm(context) == Mul((context.opponent_pace - Dec(100, 1)) \div 100, Dec(2, 100))

\* C22: the defense and pace terms of the context adjustment are those of the
\* ContextFactors' opponent_def_rating and opponent_pace, whether or not a
\* TeamDefense is passed as well: the adjustment of the context passed is
\* home or road term + back-to-back term + defense term + pace term +
\* blowout term.
C22_ContextDefenseTerms ==
    (ppc = "done" /\ ~IsNone(Val(prob_args).context)) =>
        LET c == Val(Val(prob_args).context) IN
        c.total_adjustment =
            (IF c.is_home THEN Dec(3, 100) ELSE -Dec(2, 100))
                + (IF c.is_back_to_back THEN -Dec(4, 100) ELSE 0)
                + DefenseTerm(c) + PaceTerm(c)
                + (IF c.blowout_risk > Dec(5, 10)
                   THEN Mul(-Dec(3, 100), c.blowout_risk) ELSE 0)

\* C25: calculate_probability leaves the objects passed in with the field
\* values they had before the call; the ContextFactors passed is one of them.
C25_NoSideEffects ==
    ppc = "done" => Val(prob_args).context = Val(prob_args).context_before

\* C27: no ProbabilityResult has a confidence above max_confidence (0.85).
C27_MaxConfidence ==
    ppc = "done" => Val(prob_result).confidence <= max_confidence

-----------------------------------------------------------------------------
(* Properties of the detector *)

\* The position in analyzed_players of the item a bet was made from: the
\* inputs name the i-th item's player PlayerNames[i].
ItemOf(vb) == CHOOSE i \in 1..Len(PlayerNames) : PlayerNames[i] = vb.player_name

\* The items gone through, in input order, that pass the three tests.
QualifyingItems ==
    SelectSeq([i \in DOMAIN prob_results |-> i],
              LAMBDA i : /\ prob_results[i].recommended_bet # NO_VALUE
                         /\ prob_results[i].edge_percent >= Dec(5, 1)
                         /\ prob_results[i].confidence >= Dec(55, 100))

\* C7: an analyzed item becomes a ValueBet if and only if its recommendation
\* is not NO_VALUE, its edge_percent >= 5.0 and its confidence >= 0.55: during
\* the loop value_bets holds exactly the bets of the qualifying items gone
\* through, after it value_bets holds them all, and no bet returned is
\* NO_VALUE, below the edge minimum or below the confidence minimum.
C7_ValueBetIffQualifies ==
    /\ dpc \in {"loop", "done"} =>
           /\ Len(value_bets) = Len(QualifyingItems)
           /\ {ItemOf(value_bets[k]) : k \in DOMAIN value_bets} = Range(QualifyingItems)
           /\ \A k \in DOMAIN value_bets :
                  /\ value_bets[k].edge_percent =
                         prob_results[ItemOf(value_bets[k])].edge_percent
                  /\ value_bets[k].confidence =
                         prob_results[ItemOf(value_bets[k])].confidence
                  /\ value_bets[k].bet_type =
                         prob_results[ItemOf(value_bets[k])].recommended_bet
    /\ dpc = "loop" =>
           \A k \in DOMAIN value_bets :
               k \in DOMAIN QualifyingItems => ItemOf(value_bets[k]) = QualifyingItems[k]
    /\ dpc = "done" =>
           \A k \in DOMAIN returned :
               /\ returned[k].bet_type # NO_VALUE
               /\ returned[k].edge_percent >= Dec(5, 1)
               /\ returned[k].confidence >= Dec(55, 100)

C7_Witness ==
    /\ dpc = "done"
    /\ Len(returned) = 1
    /\ Len(analyzed_players) = 3
    /\ \E i \in DOMAIN prob_results : prob_results[i].recommended_bet = NO_VALUE
    /\ \E i \in DOMAIN prob_results :
           /\ prob_results[i].recommended_bet # NO_VALUE
           /\ prob_results[i].edge_percent >= Dec(5, 1)
           /\ prob_results[i].confidence < Dec(55, 100)

\* C8: the list returned is sorted by edge_percent, largest first; its i-th
\* element has rank i; it is at most top_n_results long; it holds the
\* top_n_results qualifying bets of largest edge (all of them if they are
\* fewer), so no qualifying bet left out has a larger edge than one returned.
C8_RankedTopN ==
    dpc = "done" =>
        /\ \A a, b \in DOMAIN returned :
               a < b => returned[a].edge_percent >= returned[b].edge_percent
        /\ \A k \in DOMAIN returned : returned[k].rank = k
        /\ Len(returned) <= top_n_results
        /\ Len(returned) = Min(top_n_results, Len(QualifyingItems))
        /\ \A k \in DOMAIN returned : ItemOf(returned[k]) \in Range(QualifyingItems)
        /\ \A i \in Range(QualifyingItems) :
               i \notin {ItemOf(returned[k]) : k \in DOMAIN returned} =>
                   \A k \in DOMAIN returned :
                       prob_results[i].edge_percent <= returned[k].edge_percent

C8_Witness ==
    /\ dpc = "done"
    /\ top_n_results = 2
    /\ Len(returned) = 2
    /\ Len(QualifyingItems) = 3
    /\ returned[1].edge_percent > returned[2].edge_percent
    /\ ItemOf(returned[1]) > ItemOf(returned[2])

\* C9: the ranking is stable: of two qualifying bets with equal edge_percent
\* the one whose item comes first in analyzed_players gets the smaller rank,
\* and is the one returned when the cut at top_n_results falls between them.
C9_StableRanking ==
    dpc = "done" =>
        /\ \A a, b \in DOMAIN value_bets :
               (a < b /\ value_bets[a].edge_percent = value_bets[b].edge_percent)
                   => /\ ItemOf(value_bets[a]) < ItemOf(value_bets[b])
                      /\ value_bets[a].rank < value_bets[b].rank
        /\ \A a \in DOMAIN returned : returned[a] = value_bets[a]

C9_Witness ==
    /\ dpc = "done"
    /\ top_n_results = 1
    /\ Len(value_bets) = 3
    /\ Len(returned) = 1
    /\ value_bets[1].edge_percent = value_bets[2].edge_percent
    /\ value_bets[1].bet_type # value_bets[2].bet_type
    /\ ItemOf(value_bets[1]) = 2
    /\ ItemOf(value_bets[2]) = 3

\* C10: a second call of detect_value_bets on the unchanged analyzed pool and
\* team-defense mapping returns the list the first call returned: the same
\* players in the same order with the same ranks, edges, probabilities and
\* confidences.
C10_RankingDeterministic ==
    (dpc = "done" /\ ~IsNone(prev_returned)) => returned = Val(prev_returned)

C10_Witness ==
    /\ dpc = "done"
    /\ runs = 2
    /\ ~IsNone(prev_returned)
    /\ Len(returned) >= 2
    /\ returned[1].edge_percent = returned[2].edge_percent

-----------------------------------------------------------------------------
(* Properties of the ranking step *)

\* The player names of a list of bets, in the list's order.
Names(bets) == [k \in DOMAIN bets |-> bets[k].player_name]

\* The rank a list of ranked bets gives to a player in it.
RankOf(bets, name) == bets[CHOOSE k \in DOMAIN bets : bets[k].player_name = name].rank

\* C11: when a second run of the ranking differs from the first only in one
\* qualifying candidate's edge_percent being larger (its confidence still at
\* or above min_confidence), that candidate's rank in the second run is at
\* most its rank in the first, a candidate returned in the first run is still
\* returned, and the other candidates keep their relative order.
C11_RankMonotone ==
    rpc = "second" =>
        LET who == PlayerNames[rk_who]
            IsOther(name) == name # who
        IN /\ rk_bets2[rk_who].edge_percent > rk_bets[rk_who].edge_percent
           /\ rk_bets2[rk_who].confidence >= min_confidence
           /\ \A k \in DOMAIN rk_bets : k # rk_who => rk_bets2[k] = rk_bets[k]
           /\ RankOf(rk_ranked2, who) <= RankOf(rk_ranked, who)
           /\ who \in Range(Names(rk_returned)) =>
                  /\ who \in Range(Names(rk_returned2))
                  /\ RankOf(rk_returned2, who) <= RankOf(rk_returned, who)
           /\ SelectSeq(Names(rk_ranked2), IsOther) = SelectSeq(Names(rk_ranked), IsOther)

C11_Witness ==
    /\ rpc = "second"
    /\ Len(rk_bets) = 3
    /\ top_n_results = 2
    /\ PlayerNames[rk_who] \notin Range(Names(rk_returned))
    /\ RankOf(rk_ranked, PlayerNames[rk_who]) = 3
    /\ RankOf(rk_returned2, PlayerNames[rk_who]) = 2
    /\ rk_ranked2[1].edge_percent = rk_ranked2[2].edge_percent

-----------------------------------------------------------------------------
(* Properties of the stability analyzer *)

\* analyze has returned metrics (and they may have been priced since).
Analyzed == apc \in {"analyze", "priced"}

\* C12: the stability_score is within [0, 100] for every std_pts, cv_pts,
\* cv_minutes and hit rate in [0, 1], extreme variances included, whether
\* _calculate_stability_score is called directly or through analyze.
C12_ScoreRange ==
    /\ apc = "score" => 0 <= Val(sa_result) /\ Val(sa_result) <= Dec(100, 1)
    /\ Analyzed =>
           /\ 0 <= Val(sa_result).stability_score
           /\ Val(sa_result).stability_score <= Dec(100, 1)

C12_Witness ==
    /\ apc = "score"
    /\ Val(sa_args).std_pts = Dec(50, 1)
    /\ Val(sa_args).cv_pts = Dec(5, 1)
    /\ Val(sa_args).cv_min = Dec(3, 1)
    /\ Val(sa_args).hit_rate = 0
    /\ Val(sa_result) = 0

\* cv is std / mean to the resolution of the numbers: cv in 1/1000, std and
\* mean in 1/100.
IsQuotient(cv, std, mean) ==
    LET c == cv \div (SCALE \div 1000)
        m == mean \div (SCALE \div 100)
        sd == std \div (SCALE \div 100)
    IN Abs(c * m - sd * 1000) <= 2 * m + c + 1000

\* C13: in the metrics analyze returns cv_pts >= 0; it is std_pts / mean_pts
\* when mean_pts > 0 and exactly 1.0 when mean_pts <= 0; cv_minutes follows
\* the same rule on the last-10 minutes.
C13_CoefficientOfVariation ==
    Analyzed =>
        LET m == Val(sa_result) IN
        /\ m.cv_pts >= 0
        /\ m.mean_pts > 0 => IsQuotient(m.cv_pts, m.std_pts, m.mean_pts)
        /\ m.mean_pts <= 0 => m.cv_pts = SCALE
        /\ m.cv_minutes >= 0
        /\ m.mean_minutes > 0 => IsQuotient(m.cv_minutes, m.std_minutes, m.mean_minutes)
        /\ m.mean_minutes <= 0 => m.cv_minutes = SCALE

C13_Witness ==
    /\ apc = "analyze"
    /\ Val(sa_result).mean_minutes = 0
    /\ Val(sa_result).cv_minutes = SCALE
    /\ Val(sa_result).mean_pts > 0
    /\ Val(sa_result).std_pts > 0
    /\ Val(sa_result).cv_pts > 0

\* C14: no StabilityAnalyzer operation returns when the last-5 or the
\* last-10 sequence of its stats is empty: analyze and get_trend end with an
\* error instead of returning metrics or a trend.
C14_FailsFast ==
    apc \in {"analyze", "priced", "get_trend"} =>
        /\ Val(sa_args).stats.last_5_games # <<>>
        /\ Val(sa_args).stats.last_10_games # <<>>

\* C15: for last-10 points [30,32,28,31,29,30,33,27,31,30] and a line of 24.5
\* priced at implied 0.524 each side, analyze gives hit_rate_last_10 = 1.0,
\* cv_pts < 0.10 and risk_level "low" whatever the minutes are, and
\* calculate_probability on these metrics recommends OVER with a positive edge.
C15_Scenario ==
    (/\ Analyzed
     /\ Pts(Val(sa_args).stats.last_10_games) = HotPts
     /\ Val(sa_args).line.line_points = Dec(245, 10)
     /\ Val(sa_args).line.over_implied_prob = Dec(524, 1000)
     /\ Val(sa_args).line.under_implied_prob = Dec(524, 1000))
        => /\ Val(sa_result).hit_rate_last_10 = SCALE
           /\ Val(sa_result).cv_pts < Dec(10, 100)
           /\ Val(sa_result).risk_level = "low"
           /\ apc = "priced" =>
                  /\ Val(sa_prob).recommended_bet = OVER
                  /\ Val(sa_prob).edge_percent > 0

C15_Witness ==
    /\ apc = "priced"
    /\ Pts(Val(sa_args).stats.last_10_games) = HotPts
    /\ Mins(Val(sa_args).stats.last_10_games) = SwingMins
    /\ Val(sa_args).line.line_points = Dec(245, 10)
    /\ ~Val(sa_args).line.is_home
    /\ Val(sa_result).stability_score = Dec(70, 1)
    /\ Val(sa_result).risk_level = "low"
    /\ Val(sa_prob).recommended_bet = OVER

\* The games of a window with more points than the line.
Hits(games, line_value) == {i \in DOMAIN games : games[i].pts * SCALE > line_value}

\* C17: hit_rate_last_5 and hit_rate_last_10 are the number of games of the
\* window with points strictly above the line, divided by the number of games
\* in the window; a game with points equal to the line is a miss; both rates
\* are in [0, 1].
C17_HitRate ==
    Analyzed =>
        LET st == Val(sa_args).stats
            line_value == Val(sa_args).line.line_points
            m == Val(sa_result)
        IN /\ m.hit_rate_last_5 * Len(st.last_5_games)
                  = Cardinality(Hits(st.last_5_games, line_value)) * SCALE
           /\ m.hit_rate_last_10 * Len(st.last_10_games)
                  = Cardinality(Hits(st.last_10_games, line_value)) * SCALE
           /\ 0 <= m.hit_rate_last_5 /\ m.hit_rate_last_5 <= SCALE
           /\ 0 <= m.hit_rate_last_10 /\ m.hit_rate_last_10 <= SCALE
           /\ (\A i \in DOMAIN st.last_10_games :
                   st.last_10_games[i].pts * SCALE = line_value)
                  => m.hit_rate_last_10 = 0

C17_Witness ==
    /\ apc = "analyze"
    /\ Pts(Val(sa_args).stats.last_10_games) = HotPts
    /\ Val(sa_args).line.line_points = Dec(30, 1)
    /\ Val(sa_result).hit_rate_last_10 = Dec(4, 10)
    /\ Val(sa_result).hit_rate_last_5 = Dec(2, 5)

\* C18: is_stable is true exactly when stability_score >= 60; risk_level is
\* "low" exactly when score >= 70 and cv_pts < 0.20, otherwise "medium"
\* exactly when score >= 50 and cv_pts < 0.25, otherwise "high"; cv_pts equal
\* to 0.20 with score 90 is "medium".
C18_RiskLevel ==
    LET score == IF apc = "risk" THEN Val(sa_args).stability_score
                 ELSE Val(sa_result).stability_score
        cv == IF apc = "risk" THEN Val(sa_args).cv_pts ELSE Val(sa_result).cv_pts
        risk == IF apc = "risk" THEN Val(sa_result) ELSE Val(sa_result).risk_level
        low == score >= Dec(70, 1) /\ cv < Dec(20, 100)
        medium == ~low /\ score >= Dec(50, 1) /\ cv < Dec(25, 100)
    IN /\ (apc = "risk" \/ Analyzed) =>
              /\ risk \in {"low", "medium", "high"}
              /\ risk = "low" <=> low
              /\ risk = "medium" <=> medium
              /\ (cv = Dec(20, 100) /\ score = Dec(90, 1)) => risk = "medium"
       /\ Analyzed => (Val(sa_result).is_stable <=> score >= Dec(60, 1))

C18_Witness ==
    /\ apc = "risk"
    /\ Val(sa_args).cv_pts = Dec(20, 100)
    /\ Val(sa_args).stability_score = Dec(90, 1)
    /\ Val(sa_result) = "medium"

-----------------------------------------------------------------------------
(* The context detect_value_bets builds for each line *)

\* The entry matches the opponent descriptor (line 386).
EntryMatches(entry, opponent) ==
    \/ Contains(opponent, entry.abbr)
    \/ Contains(entry.defense.team_name, opponent)

\* The positions of team_defenses that match the opponent of the line.
MatchingEntries(line) ==
    IF IsNone(team_defenses) THEN {}
    ELSE {k \in 1..Len(Val(team_defenses)) : EntryMatches(Val(team_defenses)[k], line.opponent)}

\* C23: in detect_value_bets, a line whose opponent no entry of team_defenses
\* matches (or with no team_defenses at all) gets the league-average context:
\* rating 112, pace 100, no back-to-back, blowout risk 0, and an adjustment of
\* exactly home_advantage at home and road_penalty away; a line several entries
\* match gets the rating and pace of the first of them in the dict's order.
C23_ContextDefaults ==
    \A i \in 1..Len(contexts) :
        LET line == analyzed_players[i].line
            c == contexts[i]
            ms == MatchingEntries(line)
        IN /\ c.is_home = line.is_home
           /\ c.is_back_to_back = FALSE
           /\ c.blowout_risk = 0
           /\ ms = {} =>
                  /\ c.opponent_def_rating = Dec(112, 1)
                  /\ c.opponent_pace = Dec(100, 1)
                  /\ c.total_adjustment = IF line.is_home THEN home_advantage
                                          ELSE road_penalty
           /\ ms # {} =>
                  LET first == CHOOSE k \in ms : \A j \in ms : k <= j
                      defense == Val(team_defenses)[first].defense
                  IN /\ c.opponent_def_rating = defense.def_rating
                     /\ c.opponent_pace = defense.pace
                     /\ c.total_adjustment =
                            calculate_context_adjustment(c, Some(defense))

\* A finished call in which an away line matched no entry and got road_penalty
\* while another line matched two entries with different ratings.
C23_Witness ==
    /\ dpc = "done"
    /\ \E i \in 1..Len(contexts) :
           /\ MatchingEntries(analyzed_players[i].line) = {}
           /\ ~analyzed_players[i].line.is_home
           /\ contexts[i].total_adjustment = road_penalty
    /\ \E i \in 1..Len(contexts) :
           \E k, j \in MatchingEntries(analyzed_players[i].line) :
               /\ k < j
               /\ Val(team_defenses)[k].defense.def_rating
                      # Val(team_defenses)[j].defense.def_rating

-----------------------------------------------------------------------------
(* The ValueBets returned against the results they were made from *)

\* C28: every ValueBet returned by detect_value_bets agrees with its side: an
\* OVER bet carries p_over and the line's over implied probability, an UNDER
\* bet p_under and the under implied probability; in both cases edge_percent
\* is (model_prob - implied_prob) * 100 and model_prob > implied_prob.
C28_BetConsistentWithSide ==
    dpc = "done" =>
        \A k \in DOMAIN returned :
            LET vb == returned[k]
                r == prob_results[ItemOf(vb)]
                line == analyzed_players[ItemOf(vb)].line
            IN /\ vb.bet_type \in {OVER, UNDER}
               /\ vb.bet_type = OVER =>
                      /\ vb.model_prob = r.p_over
                      /\ vb.implied_prob = line.over_implied_prob
               /\ vb.bet_type = UNDER =>
                      /\ vb.model_prob = r.p_under
                      /\ vb.implied_prob = line.under_implied_prob
               /\ vb.edge_percent = (vb.model_prob - vb.implied_prob) * 100
               /\ vb.model_prob > vb.implied_prob

\* A call that returned an OVER bet and an UNDER bet.
C28_Witness ==
    /\ dpc = "done"
    /\ \E k \in DOMAIN returned : returned[k].bet_type = OVER
    /\ \E k \in DOMAIN returned : returned[k].bet_type = UNDER

\* The item at position i of analyzed_players has a bet in value_bets.
HasBet(i) == \E k \in DOMAIN value_bets : ItemOf(value_bets[k]) = i

\* C29: a result that recommends OVER or UNDER recommends the side with the
\* strictly larger edge and has edge_percent >= min_edge_percent, so with a
\* sufficient confidence it always becomes a ValueBet; a NO_VALUE result never
\* becomes one, even when its edge_percent is min_edge_percent or more.
C29_RecommendationImpliesEdge ==
    \A i \in DOMAIN prob_results :
        LET r == prob_results[i] IN
        /\ r.recommended_bet = OVER =>
               /\ r.edge_over > r.edge_under
               /\ r.edge_percent = r.edge_over * 100
        /\ r.recommended_bet = UNDER =>
               /\ r.edge_under > r.edge_over
               /\ r.edge_percent = r.edge_under * 100
        /\ r.recommended_bet # NO_VALUE =>
               /\ r.edge_percent >= min_edge_percent
               /\ r.confidence >= min_confidence => HasBet(i)
        /\ r.recommended_bet = NO_VALUE => ~HasBet(i)

\* A call with a NO_VALUE result of equal edges of 7 points and sufficient
\* confidence, and with another result that became a bet.
C29_Witness ==
    /\ dpc = "done"
    /\ \E i \in DOMAIN prob_results :
           /\ prob_results[i].recommended_bet = NO_VALUE
           /\ prob_results[i].edge_over = prob_results[i].edge_under
           /\ prob_results[i].edge_percent >= min_edge_percent
           /\ prob_results[i].confidence >= min_confidence
    /\ \E i \in DOMAIN prob_results :
           /\ prob_results[i].recommended_bet # NO_VALUE
           /\ HasBet(i)

-----------------------------------------------------------------------------
(* SessionCache *)

\* set(key, value, ttl_seconds): ttl_seconds is not stored by the code; ttls
\* remembers it for the properties only.
CacheSet ==
    /\ \E key \in CacheKeys, value \in CacheValues, ttl_seconds \in TtlInputs :
        /\ cache' = [cache EXCEPT ![key] = Some(value)]
        /\ timestamps' = [timestamps EXCEPT ![key] = Some(now)]
        /\ ttls' = [ttls EXCEPT ![key] = Some(ttl_seconds)]
    /\ UNCHANGED <<now, got>>
    /\ UNCHANGED <<filterVars, probVars, detectVars, analyzeVars, rankVars, poolVars>>

\* get(key): self._cache.get(key); got keeps what was returned, and the age
\* and ttl_seconds of the entry at that moment.
CacheGet ==
    /\ \E key \in CacheKeys :
        got' = Some([key |-> key,
                     value |-> cache[key],
                     stored |-> cache[key],
                     age |-> IF IsNone(timestamps[key]) THEN None
                             ELSE Some(now - Val(timestamps[key])),
                     ttl_seconds |-> ttls[key]])
    /\ UNCHANGED <<cache, timestamps, now, ttls>>
    /\ UNCHANGED <<filterVars, probVars, detectVars, analyzeVars, rankVars, poolVars>>

\* clear()
CacheClear ==
    /\ cache' = EmptyDict
    /\ timestamps' = EmptyDict
    /\ ttls' = EmptyDict
    /\ UNCHANGED <<now, got>>
    /\ UNCHANGED <<filterVars, probVars, detectVars, analyzeVars, rankVars, poolVars>>

\* The keys cleanup(ttl_seconds) finds expired.
ExpiredKeys(ttl_seconds) ==
    {key \in CacheKeys : /\ ~IsNone(timestamps[key])
                         /\ now - Val(timestamps[key]) > ttl_seconds}

\* cleanup(ttl_seconds)
CacheCleanup ==
    /\ \E ttl_seconds \in TtlInputs :
        LET expired_keys == ExpiredKeys(ttl_seconds) IN
        /\ cache' = [k \in CacheKeys |-> IF k \in expired_keys THEN None ELSE cache[k]]
        /\ timestamps' = [k \in CacheKeys |-> IF k \in expired_keys THEN None
                                               ELSE timestamps[k]]
        /\ ttls' = [k \in CacheKeys |-> IF k \in expired_keys THEN None ELSE ttls[k]]
    /\ UNCHANGED <<now, got>>
    /\ UNCHANGED <<filterVars, probVars, detectVars, analyzeVars, rankVars, poolVars>>

\* A second passes between two calls.
Tick ==
    /\ now < MaxTime
    /\ now' = now + 1
    /\ UNCHANGED <<cache, timestamps, ttls, got>>
    /\ UNCHANGED <<filterVars, probVars, detectVars, analyzeVars, rankVars, poolVars>>

NextCache ==
    \/ CacheSet
    \/ CacheGet
    \/ CacheClear
    \/ CacheCleanup
    \/ Tick

SpecCache == Init /\ [][NextCache]_vars

\* C26: get(key) returns the value set while the entry is younger than the
\* ttl_seconds it was set with, and None once more than ttl_seconds have
\* passed since the set.
C26_TtlHonoured ==
    (~IsNone(got) /\ ~IsNone(Val(got).age)) =>
        LET g == Val(got) IN
        /\ Val(g.age) < Val(g.ttl_seconds) => g.value = g.stored
        /\ Val(g.age) > Val(g.ttl_seconds) => IsNone(g.value)

-----------------------------------------------------------------------------
(* analyze_player_pool and the pipeline of main.py *)

\* @dataclass PlayerStats with the fields the filter, the analyzer and the
\* probability model read; the windows are game_log[:5] and game_log[:10].
FullPlayerStats(player_name, games_played, avg_min_last_10, game_log) ==
    [player_name |-> player_name,
     games_played |-> Some(games_played),
     last_5_games |-> SubSeq(game_log, 1, Min(5, Len(game_log))),
     last_10_games |-> SubSeq(game_log, 1, Min(10, Len(game_log))),
     avg_min_last_10 |-> Some(avg_min_last_10),
     injury_status |-> None,
     is_available |-> Some(TRUE)]

\* NBADataFetcher.fetch_player_stats, given the game log it fetched: None for
\* fewer than 5 games
fetch_player_stats(player_name, game_log) ==
    IF Len(game_log) < 5 THEN None
    ELSE Some(FullPlayerStats(player_name, Len(game_log),
                              NpMean(Mins(SubSeq(game_log, 1, Min(10, Len(game_log))))),
                              game_log))

\* stats = {}: an entry for each player fetch_player_stats returned stats for
FetchedStats(logs) ==
    [n \in {q \in DOMAIN logs : ~IsNone(fetch_player_stats(q, logs[q]))} |->
         Val(fetch_player_stats(n, logs[n]))]

\* A stats dict from another caller of analyze_player_pool: the season's
\* games_played and the average minutes are given on their own, whatever the
\* two windows hold.
GivenStats(logs) == [n \in DOMAIN logs |-> FullPlayerStats(n, 40, Dec(33, 1), logs[n])]

FiveLog == GameLog(<<26, 27, 25, 28, 26>>)
BenchLog == GameLogWith(HotPts, ZeroMins)

\* The game log of each player
PoolLogInputs ==
    {[n \in {"A", "B", "C"} |-> IF n = "A" THEN a ELSE IF n = "B" THEN b ELSE c] :
         a \in {HotLog, BenchLog}, b \in {SwingLog, FiveLog, <<>>}, c \in {ColdLog, ShortLog}}

PoolInjuryInputs == {None, Some([n \in {"A"} |-> "Out"])}

PoolDefensesInputs == {d \in DefensesInputs : IsNone(d) \/ Len(Val(d)) = 2}

\* The PlayerStats of an analyzed item as the probability model reads it:
\* games_played is the number itself.
ItemStats(st) ==
    [player_name |-> st.player_name,
     games_played |-> Val(st.games_played),
     last_5_games |-> st.last_5_games,
     last_10_games |-> st.last_10_games]

\* Puts item behind every element whose stability_score is not smaller.
RECURSIVE InsertByScore(_, _)
InsertByScore(sorted, item) ==
    IF sorted = <<>> THEN <<item>>
    ELSE IF Head(sorted).stability.stability_score >= item.stability.stability_score
    THEN <<Head(sorted)>> \o InsertByScore(Tail(sorted), item)
    ELSE <<item>> \o sorted

RECURSIVE SortByScoreFrom(_, _)
SortByScoreFrom(sorted, rest) ==
    IF rest = <<>> THEN sorted
    ELSE SortByScoreFrom(InsertByScore(sorted, Head(rest)), Tail(rest))

\* The list left in the order of accepted_lines.
SortByScore_unsorted(results) == results

\* analysis_results.sort(key=lambda x: x["stability"].stability_score, reverse=True)
SortByScore(results) == SortByScoreFrom(<<>>, results)

\* The loop over accepted_lines: one dict per accepted line
AnalysisResults(accepted_lines, st) ==
    [k \in DOMAIN accepted_lines |->
        LET line == accepted_lines[k]
            player_stats == st[Val(line.player_name)]
        IN [line |-> line,
            stats |-> ItemStats(player_stats),
            stability |-> analyze(player_stats, line),
            trend |-> get_trend(player_stats)]]

\* np.mean of the scores, or 0 for an empty list
AvgStability(results) ==
    IF results = <<>> THEN 0
    ELSE SumSeq([k \in DOMAIN results |-> results[k].stability.stability_score])
             \div Len(results)

\* The dict analyze_player_pool returns
PoolResult(all_lines, accepted_lines, rejected_, st) ==
    LET analysis_results == SortByScore(AnalysisResults(accepted_lines, st))
    IN [analyzed |-> analysis_results,
        rejected |-> rejected_,
        summary |-> [total_lines |-> Len(all_lines),
                     accepted |-> Len(accepted_lines),
                     rejected |-> Len(rejected_),
                     avg_stability |-> AvgStability(analysis_results)]]

\* main(): the stats fetched for the lines and analyze_player_pool(lines, stats)
\* entered, or analyze_player_pool called with a stats dict built elsewhere;
\* the filter starts.
PoolCall ==
    /\ pool_pc = "idle"
    /\ fpc = "idle"
    /\ \E ls \in LinesInputs, logs \in PoolLogInputs, inj \in PoolInjuryInputs,
          fetched \in BOOLEAN :
        /\ lines' = ls
        /\ game_logs' = logs
        /\ stats' = IF fetched THEN FetchedStats(logs) ELSE GivenStats(logs)
        /\ injury_report' = inj
    /\ accepted' = <<>>
    /\ rejected' = <<>>
    /\ fi' = 1
    /\ fpc' = "loop"
    /\ pool_pc' = "filter"
    /\ UNCHANGED pool_result
    /\ UNCHANGED <<probVars, detectVars, analyzeVars, rankVars, cacheVars>>

\* analyze_player_pool after the filter returned: the loop over
\* accepted_lines, the sort and the summary; analyze raises on an empty window.
PoolAnalyze ==
    /\ pool_pc = "filter"
    /\ fpc = "done"
    /\ IF \E k \in DOMAIN accepted : AnalyzeRaises(stats[Val(accepted[k].player_name)])
       THEN /\ pool_pc' = "raised"
            /\ UNCHANGED pool_result
       ELSE /\ pool_pc' = "analyzed"
            /\ pool_result' = Some(PoolResult(lines, accepted, rejected, stats))
    /\ UNCHANGED game_logs
    /\ UNCHANGED <<filterVars, probVars, detectVars, analyzeVars, rankVars, cacheVars>>

\* detector.detect_value_bets(analysis["analyzed"], team_defenses)
PoolDetect ==
    /\ pool_pc = "analyzed"
    /\ dpc = "idle"
    /\ \E defenses \in PoolDefensesInputs : team_defenses' = defenses
    /\ analyzed_players' = Val(pool_result).analyzed
    /\ value_bets' = NewValueBets(value_bets)
    /\ prob_results' = <<>>
    /\ contexts' = <<>>
    /\ di' = 1
    /\ dpc' = "loop"
    /\ runs' = runs + 1
    /\ pool_pc' = "detect"
    /\ UNCHANGED <<top_n_results, returned, prev_returned>>
    /\ UNCHANGED <<game_logs, pool_result>>
    /\ UNCHANGED <<filterVars, probVars, analyzeVars, rankVars, cacheVars>>

NextPool ==
    \/ PoolCall
    \/ FilterLine
    \/ FilterReturn
    \/ PoolAnalyze
    \/ PoolDetect
    \/ DetectItem
    \/ DetectReturn

SpecPool == Init /\ [][NextPool]_vars

\* C24: every line the filter accepted belongs to a player whose last-5 and
\* last-10 windows are not empty, and analyze_player_pool does not raise on
\* an accepted line.
C24_AcceptedHaveHistory ==
    /\ pool_pc # "raised"
    /\ pool_pc # "idle" =>
           \A k \in DOMAIN accepted :
               LET st == stats[Val(accepted[k].player_name)]
               IN st.last_5_games # <<>> /\ st.last_10_games # <<>>

\* C30: analyze_player_pool followed by detect_value_bets works on the accepted
\* lines only: the analyzed list has one item per accepted line, with the
\* stability metrics of that line, in descending order of stability_score; no
\* rejected player is in it or among the value bets returned; every value bet
\* is for an accepted line; and the summary has
\* accepted + rejected = total_lines.
C30_PipelineOnAcceptedOnly ==
    pool_pc \in {"analyzed", "detect"} =>
        LET result == Val(pool_result)
            analyzed == result.analyzed
            RejectedPlayer(name) == \E r \in Range(rejected) : r.player = name
        IN /\ Len(analyzed) = Len(accepted)
           /\ \A l \in Range(accepted) :
                  Cardinality({k \in DOMAIN analyzed : analyzed[k].line = l})
                      = Cardinality({k \in DOMAIN accepted : accepted[k] = l})
           /\ \A k \in DOMAIN analyzed :
                  /\ analyzed[k].line \in Range(accepted)
                  /\ ~RejectedPlayer(analyzed[k].line.player_name)
                  /\ analyzed[k].stability =
                         analyze(stats[Val(analyzed[k].line.player_name)], analyzed[k].line)
                  /\ k > 1 => analyzed[k - 1].stability.stability_score
                                  >= analyzed[k].stability.stability_score
           /\ result.rejected = rejected
           /\ result.summary.total_lines = Len(lines)
           /\ result.summary.accepted = Len(accepted)
           /\ result.summary.accepted + result.summary.rejected
                  = result.summary.total_lines
           /\ pool_pc = "detect" =>
                  \A vb \in Range(value_bets) \cup Range(returned) :
                      /\ \E l \in Range(accepted) : l.player_name = Some(vb.player_name)
                      /\ ~RejectedPlayer(Some(vb.player_name))

\* A finished run with a rejected line, two analyzed items that the sort put
\* in another order than the filter accepted them, and a value bet returned.
C30_Witness ==
    /\ pool_pc = "detect"
    /\ dpc = "done"
    /\ rejected # <<>>
    /\ Len(accepted) >= 2
    /\ \E k \in DOMAIN accepted : Val(pool_result).analyzed[k].line # accepted[k]
    /\ returned # <<>>

====
